---- MODULE Spec2Model ----
(***************************************************************************)
(* Agent Bridge: the thread event log of server.py and the dispatch loop   *)
(* of coordinator.py.                                                      *)
(*                                                                         *)
(* Timestamps: the server stamps datetime.now().isoformat(); the strings   *)
(* are compared with <= and >, and for one format that order is the order  *)
(* of the clock readings.  A ts is modelled by the clock reading (a        *)
(* positive integer); NoTs stands for an absent or empty cursor.           *)
(*                                                                         *)
(* Content: an event carries its content as the string (or, for a control *)
(* posted as an object, a label of the object).  Tokens gives what         *)
(* content.split() gives: each token by its unique decomposition           *)
(* [pre, word, trail]: whether it starts with the mention prefix, the text *)
(* that follows up to the trailing punctuation, and the maximal suffix of  *)
(* characters of .,:;!?)]}"'.  Json gives what json.loads gives.           *)
(***************************************************************************)
EXTENDS Integers, Sequences, FiniteSets, TLC

VARIABLES
    clock,          \* last reading of the server's wall clock
    index,          \* server: thread ids of conversations/index.json
    log,            \* server: thread id -> the lines of <thread>.jsonl
    inflight,       \* server: entries stamped by a handler and not yet written
    updating,       \* server: handlers inside update_thread_index or before it
    nextId,         \* server: stands for ulid(): the next fresh id
    posts,          \* number of client requests admitted so far (bounded)
    ties,           \* number of stamps that repeated the clock reading (bounded)
    failures,       \* number of adapter runs that exited non-zero (bounded)
    resp,           \* server: response of the last POST /threads/{id}/events
    pc,             \* coordinator: position in main()
    thread_id,      \* coordinator: the thread being scanned
    state,          \* coordinator: state["threads"], thread id -> last_ts
    saved,          \* coordinator: content of coordinator_state.json
    processed_ids,  \* coordinator: thread id -> set of event ids
    since,          \* coordinator: cursor read at the start of the scan
    fetched,        \* coordinator: length of the fetched event list
    pos,            \* coordinator: index in events of the event being scanned
    control_state,  \* coordinator: in-scan control state
    target_agents,  \* coordinator: targets still to invoke for events[pos]
    enable_mentions,\* coordinator: config.enable_mentions
    calls,          \* history: (thread, event id, agent) -> adapter invocations
    starts,         \* number of restarts of the coordinator process (bounded)
    history,        \* history: what the coordinator had before it at a seek
                    \* to the tail and at its last start
    active_invocations, \* coordinator: the set of (thread, agent) pairs
    presence_posts, \* history: (thread, participant) -> the state of the
                    \* last presence the coordinator posted for it
    presence,       \* server: PRESENCE, (thread, participant) -> entry
    stream,         \* server: the locals of one stream_thread_events generator
                    \* and what it has yielded
    args,           \* the arguments of the function or handler called last
    result          \* what that call returned

vars == << clock, index, log, inflight, updating, nextId, posts, ties, failures, resp,
           pc, thread_id, state, saved, processed_ids, since, fetched, pos,
           control_state, target_agents, enable_mentions, calls, starts,
           history, active_invocations, presence_posts,
           presence, stream, args, result >>

serverVars == << clock, index, log, inflight, updating, nextId, posts, ties, resp >>
coordVars  == << pc, thread_id, state, saved, processed_ids, since, fetched,
                 pos, control_state, target_agents, failures, calls, starts,
                 history, active_invocations, presence_posts >>
callVars   == << presence, stream, args, result >>

---------------------------------------------------------------------------
(* Bounds of the model *)

MaxPosts == 3      \* client requests appended to the log
MaxDelayed == 1    \* handlers preempted between stamping and writing
MaxTies == 1       \* stamps that read the same clock value as the stamp before
MaxFailures == 1   \* adapter runs that exit non-zero
MaxRequests == 4   \* requests answered by the server in SpecServer
SeenCap == 1       \* cap of processed_ids: 5000 at coordinator.py:572, scaled

---------------------------------------------------------------------------
(* Identities *)

Threads == {"T1"}
NoThread == ""
Agents == {"codex", "claude"}
AgentOrder == << "claude", "codex" >>      \* sorted(agent ids)
coordinator_id == "bridge-coordinator"
NoTs == 0
\* A ts that is not a JSON string (a number, null): it comes from a body
NotAString == -1

Lower(s) ==
    CASE s = "Codex" -> "codex"
      [] s = "Bob"   -> "bob"
      [] s = "Everyone" -> "everyone"
      [] OTHER       -> s

Strip(s) ==
    CASE s = " codex " -> "codex"
      [] s = " "       -> ""
      [] OTHER         -> s

---------------------------------------------------------------------------
(* Control content.  form: "obj" a JSON object, "json" a string holding a  *)
(* JSON object, "bad" a string starting with { that does not parse,        *)
(* "none" anything else.  A key that is absent has has = FALSE; a boolean  *)
(* that is absent is "absent".                                             *)

NoMute   == [has |-> FALSE, mode |-> "", targets |-> << >>]
NoUnmute == [has |-> FALSE, targets |-> << >>]
NoPause  == [has |-> FALSE, on |-> "absent"]
NoDisc   == [has |-> FALSE, on |-> "absent", allow |-> "absent"]
NoCtl    == [form |-> "none", mute |-> NoMute, unmute |-> NoUnmute,
             pause |-> NoPause, discussion |-> NoDisc]

Ctl(form, mute, unmute, pause, disc) ==
    [form |-> form, mute |-> mute, unmute |-> unmute, pause |-> pause,
     discussion |-> disc]

MuteOf(mode, targets) == [has |-> TRUE, mode |-> mode, targets |-> targets]
UnmuteOf(targets)     == [has |-> TRUE, targets |-> targets]
PauseOf(on)           == [has |-> TRUE, on |-> on]
DiscOf(on, allow)     == [has |-> TRUE, on |-> on, allow |-> allow]

\* The control contents of the model: what the content is as a JSON value
Json(content) ==
    CASE content = "obj {pause: {on: true}}" ->
           Ctl("obj", NoMute, NoUnmute, PauseOf("true"), NoDisc)
      [] content = "str {pause: {on: false}}" ->
           Ctl("json", NoMute, NoUnmute, PauseOf("false"), NoDisc)
      [] content = "obj {mute: {targets: [codex]}}" ->
           Ctl("obj", MuteOf("", << "codex" >>), NoUnmute, NoPause, NoDisc)
      [] content = "obj {mute: {targets: [claude], mode: soft}}" ->
           Ctl("obj", MuteOf("soft", << "claude" >>), NoUnmute, NoPause, NoDisc)
      [] content = "str {unmute: {targets: [ codex ]}}" ->
           Ctl("json", NoMute, UnmuteOf(<< " codex " >>), NoPause, NoDisc)
      [] content = "obj {discussion: {on: true}}" ->
           Ctl("obj", NoMute, NoUnmute, NoPause, DiscOf("true", "absent"))
      [] content = "obj {discussion: {on: true, allow_agent_mentions: false}}" ->
           Ctl("obj", NoMute, NoUnmute, NoPause, DiscOf("true", "false"))
      [] content = "str {discussion: {on: false}}" ->
           Ctl("json", NoMute, NoUnmute, NoPause, DiscOf("false", "absent"))
      [] content = "str {pause" ->
           Ctl("bad", NoMute, NoUnmute, NoPause, NoDisc)
      [] content = "obj {mute: {targets: [claude, ' '], mode: hard}}" ->
           Ctl("obj", MuteOf("hard", << "claude", " " >>), NoUnmute, NoPause, NoDisc)
      [] content = "obj {pause: {}}" ->
           Ctl("obj", NoMute, NoUnmute, PauseOf("absent"), NoDisc)
      [] OTHER -> NoCtl

\* bool(d.get(key, default)) for a JSON boolean
BoolOr(v, default) == IF v = "absent" THEN default ELSE v = "true"

\* _parse_control_content: the object, or None (has = FALSE)
_parse_control_content(evt) ==
    IF Json(evt.content).form \in {"obj", "json"}
    THEN [has |-> TRUE, content |-> Json(evt.content)]
    ELSE [has |-> FALSE, content |-> NoCtl]

_default_control_state ==
    [paused |-> FALSE, muted |-> {},
     discussion |-> [on |-> FALSE, allow_agent_mentions |-> FALSE]]

TrimmedTargets(targets) ==
    { Strip(targets[k]) : k \in DOMAIN targets } \ {""}

\* coordinator.py: one control applied to the state
_apply_control_content_to_state(st, content) ==
    LET m1 == IF content.mute.has
                 /\ (IF content.mute.mode = "" THEN "hard"
                     ELSE content.mute.mode) = "hard"
              THEN st.muted \cup TrimmedTargets(content.mute.targets)
              ELSE st.muted
        m2 == IF content.unmute.has
              THEN m1 \ TrimmedTargets(content.unmute.targets)
              ELSE m1
        p  == IF content.pause.has
              THEN BoolOr(content.pause.on, TRUE)
              ELSE st.paused
        on == BoolOr(content.discussion.on, TRUE)
        d  == IF content.discussion.has
              THEN [on |-> on,
                    allow_agent_mentions |->
                        BoolOr(content.discussion.allow, on)]
              ELSE st.discussion
    IN  [paused |-> p, muted |-> m2, discussion |-> d]

\* A control of any sender
IsControlOfAnyone(evt) == evt.type = "control"

IsUserControl(evt) == evt.type = "control" /\ evt.from = "user"

RECURSIVE FoldControls(_, _)
FoldControls(evs, st) ==
    IF evs = << >> THEN st
    ELSE LET evt == Head(evs)
             c   == _parse_control_content(evt)
         IN  FoldControls(Tail(evs),
                 IF IsUserControl(evt) /\ c.has
                 THEN _apply_control_content_to_state(st, c.content)
                 ELSE st)

\* Index of the first event of evs whose id is event_id, Len(evs)+1 if none
RECURSIVE FirstWithId(_, _, _)
FirstWithId(evs, event_id, k) ==
    IF k > Len(evs) THEN k
    ELSE IF evs[k].id = event_id THEN k
    ELSE FirstWithId(evs, event_id, k + 1)

\* coordinator.py: the state just before the event with that id
_control_state_before_event(evs, event_id) ==
    FoldControls(SubSeq(evs, 1, FirstWithId(evs, event_id, 1) - 1),
                 _default_control_state)

\* The fold step with a mute that replaces the muted set
ServerApplyMuteReplaces(st, content) ==
    LET m1 == IF content.mute.has
                 /\ (IF content.mute.mode = "" THEN "hard"
                     ELSE content.mute.mode) = "hard"
              THEN TrimmedTargets(content.mute.targets)
              ELSE st.muted
        m2 == IF content.unmute.has
              THEN m1 \ TrimmedTargets(content.unmute.targets)
              ELSE m1
        p  == IF content.pause.has
              THEN BoolOr(content.pause.on, TRUE)
              ELSE st.paused
        on == BoolOr(content.discussion.on, TRUE)
        d  == IF content.discussion.has
              THEN [on |-> on,
                    allow_agent_mentions |->
                        BoolOr(content.discussion.allow, on)]
              ELSE st.discussion
    IN  [paused |-> p, muted |-> m2, discussion |-> d]

\* server.py: the reducer of the server, with its own copy of the fold step
ServerApply(st, content) ==
    LET m1 == IF content.mute.has
                 /\ (IF content.mute.mode = "" THEN "hard"
                     ELSE content.mute.mode) = "hard"
              THEN st.muted \cup TrimmedTargets(content.mute.targets)
              ELSE st.muted
        m2 == IF content.unmute.has
              THEN m1 \ TrimmedTargets(content.unmute.targets)
              ELSE m1
        p  == IF content.pause.has
              THEN BoolOr(content.pause.on, TRUE)
              ELSE st.paused
        on == BoolOr(content.discussion.on, TRUE)
        d  == IF content.discussion.has
              THEN [on |-> on,
                    allow_agent_mentions |->
                        BoolOr(content.discussion.allow, on)]
              ELSE st.discussion
    IN  [paused |-> p, muted |-> m2, discussion |-> d]

RECURSIVE ServerFold(_, _)
ServerFold(evs, st) ==
    IF evs = << >> THEN st
    ELSE LET evt == Head(evs)
             c   == _parse_control_content(evt)
         IN  ServerFold(Tail(evs),
                 IF IsUserControl(evt) /\ c.has
                 THEN ServerApply(st, c.content)
                 ELSE st)

_derive_thread_state(evs) == ServerFold(evs, _default_control_state)

---------------------------------------------------------------------------
(* Mentions *)

Tok(w)        == [pre |-> FALSE, word |-> w, trail |-> ""]
At(w)         == [pre |-> TRUE,  word |-> w, trail |-> ""]
AtTrail(w, p) == [pre |-> TRUE,  word |-> w, trail |-> p]

\* The message texts of the model: what content.split() gives
Tokens(content) ==
    CASE content = "hello @codex" -> << Tok("hello"), At("codex") >>
      [] content = "@claude @Codex, hi" ->
           << At("claude"), AtTrail("Codex", ","), Tok("hi") >>
      [] content = "hi @claude" -> << Tok("hi"), At("claude") >>
      [] content = "@codex @claude follow-up" ->
           << At("codex"), At("claude"), Tok("follow-up") >>
      [] content = "@codex" -> << At("codex") >>
      [] content = "hello @! codex" ->
           << Tok("hello"), AtTrail("", "!"), Tok("codex") >>
      [] content = "hello @" -> << Tok("hello"), At("") >>
      [] content = "@all @codex" -> << At("all"), At("codex") >>
      [] content = "@Everyone" -> << At("Everyone") >>
      [] content = "@bob @codex" -> << At("bob"), At("codex") >>
      [] content = "@bob" -> << At("bob") >>
      [] content = "@gemini @cli" -> << At("gemini"), At("cli") >>
      [] OTHER -> << Tok(content) >>

\* coordinator.py: the lowercased mentions of a message text
_extract_mentions(content) ==
    LET text == Tokens(content)
    IN  { Lower(text[k].word) :
            k \in { j \in DOMAIN text :
                      /\ text[j].pre
                      /\ (text[j].word # "" \/ text[j].trail # "")  \* len(token) > len(prefix)
                      /\ text[j].word # "" } }                      \* non-empty after rstrip

Reserved == {"all", "everyone", "here"}

NoProfile == [nickname |-> "", client |-> "", model |-> "", roles |-> {}]
Profile(nick, client, model, roles) ==
    [nickname |-> nick, client |-> client, model |-> model, roles |-> roles]

\* A presence snapshot as the coordinator receives it: ok = FALSE when the
\* GET failed (None), otherwise parts maps participant id -> profile.
NoSnapshot == [ok |-> FALSE, parts |-> << >>]

\* coordinator.py: the participant directory, id -> profile
_build_participant_index(snap) ==
    [ p \in Agents \cup (IF snap.ok THEN DOMAIN snap.parts ELSE {}) |->
        IF snap.ok /\ p \in DOMAIN snap.parts THEN snap.parts[p]
        ELSE NoProfile ]

NickIds(m, parts) ==
    { p \in DOMAIN parts : parts[p].nickname # "" /\ Lower(parts[p].nickname) = m }
CategoryIds(m, parts) ==
    { p \in DOMAIN parts :
        \/ \E r \in parts[p].roles : r # "" /\ Lower(r) = m
        \/ (parts[p].client # "" /\ Lower(parts[p].client) = m)
        \/ (parts[p].model # "" /\ Lower(parts[p].model) = m) }

\* How one mention resolves: its kind and the ids it gives
ResolveOne(m, parts) ==
    IF m \in Reserved THEN [kind |-> "reserved", ids |-> {}]
    ELSE IF \E p \in DOMAIN parts : Lower(p) = m
         THEN [kind |-> "id", ids |-> { p \in DOMAIN parts : Lower(p) = m }]
    ELSE IF NickIds(m, parts) # {}
         THEN IF Cardinality(NickIds(m, parts)) = 1
              THEN [kind |-> "nick", ids |-> NickIds(m, parts)]
              ELSE [kind |-> "ambiguous", ids |-> {}]
    ELSE [kind |-> "category", ids |-> CategoryIds(m, parts)]

\* coordinator.py: (target_ids, ambiguous, reserved_hits)
_resolve_mentions(mentions, parts) ==
    [ target_ids |-> UNION { ResolveOne(m, parts).ids : m \in mentions },
      ambiguous  |-> [ m \in { n \in mentions :
                                 ResolveOne(n, parts).kind = "ambiguous" } |->
                         NickIds(m, parts) ],
      reserved_hits |-> { m \in mentions : ResolveOne(m, parts).kind = "reserved" } ]

\* sorted([a for a in S if a in agents])
SortedAgents(S) == SelectSeq(AgentOrder, LAMBDA a : a \in S)

---------------------------------------------------------------------------
(* Server: the thread log *)

Body(type, from, to, content) ==
    [type |-> type, from |-> from, to |-> to, content |-> content,
     reply_to |-> 0, tags |-> {}]

Message(from, to, content) == Body("message", from, to, content)
Control(from, content)     == Body("control", from, "all", content)

\* A request body that carries fields of its own with the names of the
\* stamped ones
Carrying(body, fields) == fields @@ body

\* server.py write_thread_event: the entry a handler builds,
\* {"id": ulid(), "ts": now, "thread": thread_id, **event}: a field of the
\* body replaces the stamped field of the same name
Entry(t, body, id, ts) ==
    [id |-> IF "id" \in DOMAIN body THEN body.id ELSE id,
     ts |-> IF "ts" \in DOMAIN body THEN body.ts ELSE ts,
     thread |-> IF "thread" \in DOMAIN body THEN body.thread ELSE t,
     type |-> body.type,
     from |-> body.from, to |-> body.to, content |-> body.content,
     reply_to |-> body.reply_to, tags |-> body.tags]

\* Admission with the pause checked before the mute
AdmissionPauseFirst(evs, body) ==
    IF body.type = "message" /\ body.from # "user"
    THEN LET st == _derive_thread_state(evs)
         IN  IF st.paused THEN "thread_paused"
             ELSE IF body.from \in st.muted THEN "participant_muted"
             ELSE "ok"
    ELSE "ok"

\* server.py post_thread_event: admission of a request body against the
\* whole log of the thread
Admission(evs, body) ==
    IF body.type = "message" /\ body.from # "user"
    THEN LET st == _derive_thread_state(evs)
         IN  IF body.from \in st.muted THEN "participant_muted"
             ELSE IF st.paused THEN "thread_paused"
             ELSE "ok"
    ELSE "ok"

\* server.py read_thread_events(thread, since)
read_thread_events(evs, cursor) ==
    IF cursor = NoTs THEN evs
    ELSE SelectSeq(evs, LAMBDA e : ~(e.ts <= cursor))

Last(seq) == seq[Len(seq)]

---------------------------------------------------------------------------
(* Request bodies of the clients *)

\* Bodies of the specification Spec: pause and mute controls of the user,
\* messages of the user to an agent and to all with mentions
ClientBodies ==
    { Control("user", "obj {pause: {on: true}}"),
      Control("user", "obj {mute: {targets: [codex]}}"),
      Control("user", "str {unmute: {targets: [ codex ]}}"),
      Message("user", "all", "@claude @Codex, hi"),
      Message("user", "codex", "hi @claude") }

\* Bodies of the specification SpecDiscussion: discussion controls and
\* messages of an agent that mention agents
DiscussionBodies ==
    { Control("user", "obj {discussion: {on: true}}"),
      Control("user", "obj {discussion: {on: true, allow_agent_mentions: false}}"),
      Control("user", "str {discussion: {on: false}}"),
      Message("codex", "all", "@codex @claude follow-up"),
      Message("codex", "codex", "@codex"),
      Message("user", "all", "hello @codex") }

\* Bodies of the specification SpecSkip: the events the skip rules are about
SkipBodies ==
    { Control("user", "obj {pause: {on: true}}"),
      Control("user", "str {pause: {on: false}}"),
      Message("user", "all", "hello @codex"),
      Message("user", "all", "hello @! codex"),
      Message("user", "user", "@codex"),
      Message(coordinator_id, "all", "@codex"),
      Body("thread.renamed", "user", "all", "@codex") }

\* Bodies of the specification SpecNotices: reserved words and a nickname
\* that two participants share
NoticeBodies ==
    { Control("user", "obj {discussion: {on: true}}"),
      Message("user", "all", "@all @codex"),
      Message("codex", "all", "@Everyone"),
      Message("user", "all", "@bob @codex"),
      Message("user", "all", "@bob") }

\* Bodies of the specification SpecServer: controls of the user and of an
\* agent, messages of the agents and of the user
ServerBodies ==
    { Control("user", "obj {pause: {on: true}}"),
      Control("user", "str {pause: {on: false}}"),
      Control("user", "obj {mute: {targets: [codex]}}"),
      Control("user", "str {unmute: {targets: [ codex ]}}"),
      Control("codex", "obj {pause: {on: true}}"),
      Message("codex", "all", "ok"),
      Message("claude", "all", "ok"),
      Message("user", "all", "hello @codex") }

\* Bodies of the specification SpecS1: scenario S1
S1Bodies == { Message("user", "all", "hello @codex") }

PresenceSnapshots ==
    { NoSnapshot,
      [ok |-> TRUE,
       parts |-> ("codex" :> Profile("cx", "cli", "gpt", {"dev"})
                  @@ "gemini" :> Profile("gem", "cli", "", {})) ],
      [ok |-> TRUE,
       parts |-> ("claude" :> Profile("bob", "cli", "opus", {})
                  @@ "gemini" :> Profile("Bob", "web", "", {})) ] }

ExitCodes == {0, 3}

---------------------------------------------------------------------------
(* Coordinator: the dispatch decision for one new event *)

\* The skip rules without the test of the type
SkipRuleAnyType(evt) ==
    \/ evt.from = coordinator_id
    \/ evt.to = "user"

\* coordinator.py 576-584: events that are never dispatched
SkipRule(evt) ==
    \/ evt.from = coordinator_id
    \/ evt.type # "message"
    \/ evt.to = "user"

\* Mentions allowed to every sender
MayMentionAnyone(evt, cs) == TRUE

\* coordinator.py 599-602: allow_mentions_from_sender
MayMention(evt, cs) ==
    \/ evt.from = "user"
    \/ (cs.discussion.on /\ cs.discussion.allow_agent_mentions)

\* The mention set taken whatever enable_mentions says
MentionsIgnoringConfig(evt, cs, mentions_enabled) ==
    IF evt.from = "user"
       \/ (cs.discussion.on /\ cs.discussion.allow_agent_mentions)
    THEN _extract_mentions(evt.content)
    ELSE {}

\* coordinator.py 598-604: the mention set of a to=all message
Mentions(evt, cs, mentions_enabled) ==
    IF mentions_enabled /\ MayMention(evt, cs)
    THEN _extract_mentions(evt.content)
    ELSE {}

\* coordinator.py 612: no self-wake
SelfFilter(resolved, from) == { p \in resolved : Lower(p) # Lower(from) }

\* The targets passed on without the mute gate
NoMuteGate(targets, muted) == targets

\* coordinator.py 659-663: the mute gate
MuteGate(targets, muted) == SelectSeq(targets, LAMBDA a : a \notin muted)

\* A message addressed to an id that is no agent treated like to=all
Stage1ToAnyone(evt, cs, mentions_enabled) ==
    IF SkipRule(evt) THEN "skip"
    ELSE IF cs.paused THEN "skip"
    ELSE IF evt.to \in Agents THEN "direct"
    ELSE IF Mentions(evt, cs, mentions_enabled) = {} THEN "skip"
    ELSE "mentions"

\* coordinator.py 576-606: what the loop does with a new event before it
\* asks the bridge anything: "skip" (continue), "direct" (to is an agent),
\* "mentions" (to=all with a mention set)
Stage1(evt, cs, mentions_enabled) ==
    IF SkipRule(evt) THEN "skip"
    ELSE IF cs.paused THEN "skip"
    ELSE IF evt.to # "all"
         THEN IF evt.to \in Agents THEN "direct" ELSE "skip"
    ELSE IF Mentions(evt, cs, mentions_enabled) = {} THEN "skip"
    ELSE "mentions"

Notice(evt, text) ==
    [type |-> "message", from |-> coordinator_id, to |-> "user",
     content |-> text, reply_to |-> evt.id, tags |-> {"coordinator"}]

\* ", ".join(...) over a list of texts
RECURSIVE Join(_)
Join(texts) ==
    IF texts = << >> THEN ""
    ELSE IF Len(texts) = 1 THEN Head(texts)
    ELSE Head(texts) \o ", " \o Join(Tail(texts))

\* sorted(...) of the reserved words, of the mentions that can be
\* ambiguous and of the participant ids of the model
ReservedOrder    == << "all", "everyone", "here" >>
MentionOrder     == << "bob" >>
ParticipantOrder == << "claude", "codex", "gemini" >>

\* coordinator.py 255-273: how a participant is shown to the user
_participant_display(pid, profile) ==
    IF profile.nickname # ""
    THEN IF profile.client # "" /\ profile.model # ""
         THEN profile.nickname \o " (" \o profile.client \o "/" \o profile.model \o ")"
         ELSE IF profile.client # ""
         THEN profile.nickname \o " (" \o profile.client \o ")"
         ELSE IF profile.model # ""
         THEN profile.nickname \o " (" \o profile.model \o ")"
         ELSE profile.nickname
    ELSE IF profile.client # "" /\ profile.model # ""
    THEN profile.client \o "/" \o profile.model
    ELSE IF profile.client # "" THEN profile.client
    ELSE IF profile.model # "" THEN profile.model
    ELSE pid

\* coordinator.py 634: one label of the ambiguity notice, id - display
\* (the dash stands for the em dash of the source)
Label(pid, parts) == pid \o " - " \o _participant_display(pid, parts[pid])

\* coordinator.py 633-635: the line of one ambiguous mention
AmbiguityLine(mention, ids, parts) ==
    "@" \o mention \o ": "
    \o Join([ k \in 1..Len(SelectSeq(ParticipantOrder, LAMBDA p : p \in ids)) |->
                Label(SelectSeq(ParticipantOrder, LAMBDA p : p \in ids)[k], parts) ])

\* coordinator.py 614-629: the notice about reserved mentions
ReservedNotice(evt, reserved_hits) ==
    Notice(evt, "Reserved mention(s) "
                \o Join([ k \in 1..Len(SelectSeq(ReservedOrder,
                                                 LAMBDA m : m \in reserved_hits)) |->
                            "@" \o SelectSeq(ReservedOrder,
                                             LAMBDA m : m \in reserved_hits)[k] ])
                \o " are not supported")

\* coordinator.py 631-649: the notice about ambiguous nicknames
AmbiguityNotice(evt, ambiguous, parts) ==
    Notice(evt, "Nickname ambiguity. "
                \o Join([ k \in 1..Len(SelectSeq(MentionOrder,
                                                 LAMBDA m : m \in DOMAIN ambiguous)) |->
                            AmbiguityLine(
                              SelectSeq(MentionOrder,
                                        LAMBDA m : m \in DOMAIN ambiguous)[k],
                              ambiguous[SelectSeq(MentionOrder,
                                          LAMBDA m : m \in DOMAIN ambiguous)[k]],
                              parts) ]))

\* coordinator.py 591-663: the targets to invoke for an event that Stage1
\* did not skip, and the notices posted to the user on the way
Decide(evt, cs, snap, mentions_enabled) ==
    IF evt.to # "all"
    THEN [targets |-> MuteGate(<< evt.to >>, cs.muted), notices |-> << >>]
    ELSE LET parts == _build_participant_index(snap)
             r == _resolve_mentions(Mentions(evt, cs, mentions_enabled), parts)
             resolved == SelfFilter(r.target_ids, evt.from)
         IN  [targets |-> MuteGate(SortedAgents(resolved), cs.muted),
              notices |->
                 (IF evt.from = "user" /\ r.reserved_hits # {}
                  THEN << ReservedNotice(evt, r.reserved_hits) >> ELSE << >>)
                 \o (IF DOMAIN r.ambiguous # {}
                     THEN << AmbiguityNotice(evt, r.ambiguous, parts) >>
                     ELSE << >>)]

\* coordinator.py 695-724: the event posted when the adapter has exited
Reply(agent, evt) ==
    [type |-> "message", from |-> agent, to |-> "all",
     content |-> "ok", reply_to |-> evt.id, tags |-> {"coordinator"}]
ErrorMessage(agent, evt) ==
    [type |-> "message", from |-> coordinator_id, to |-> "all",
     content |-> "Adapter failed", reply_to |-> evt.id,
     tags |-> {"coordinator", "error"}]

\* One more invocation of the adapter of agent for event id of thread t
Invoke(c, t, id, agent) ==
    LET k == << t, id, agent >>
    IN  IF k \in DOMAIN c THEN [c EXCEPT ![k] = @ + 1] ELSE c @@ (k :> 1)

\* coordinator.py 572-574: the id enters the set, which is cleared when it
\* grows over the cap
Remember(seen, id) ==
    IF Cardinality(seen \cup {id}) > SeenCap THEN {} ELSE seen \cup {id}

\* coordinator.py 558, 565: the cursor after a new event
Advance(last_ts, evt) == evt.ts

\* coordinator.py 545-547: the loop passes over an event whose ts is not a
\* non-empty string
HasTs(evt) == evt.ts # NoTs /\ evt.ts # NotAString

\* coordinator.py 549: is_new
IsNew(evt, cursor) == evt.ts > cursor

\* A control that replaces the in-scan state instead of updating it
ScanControlReplace(cs, evt) ==
    LET content == _parse_control_content(evt)
    IN  IF content.has
        THEN _apply_control_content_to_state(_default_control_state,
                                             content.content)
        ELSE cs

\* coordinator.py 551-556: a control of the user met by the loop is applied
\* to the in-scan control state, whether the event is new or not
ScanControl(cs, evt) ==
    LET content == _parse_control_content(evt)
    IN  IF content.has
        THEN _apply_control_content_to_state(cs, content.content)
        ELSE cs

\* coordinator.py 542-606: the loop over the fetched events from index k on,
\* as far as it goes without a request to the bridge: it stops at the first
\* new event that Stage1 does not skip (cursor and processed_ids already
\* updated for it), or behind the last event.
RECURSIVE LocalScan(_, _, _, _, _, _, _)
LocalScan(evs, k, cursor, cs, last_ts, seen, mentions_enabled) ==
    IF k > Len(evs)
    THEN [pos |-> k, control_state |-> cs, last_ts |-> last_ts, seen |-> seen]
    ELSE LET evt == evs[k]
         IN  IF ~HasTs(evt)
             THEN LocalScan(evs, k + 1, cursor, cs, last_ts, seen, mentions_enabled)
             ELSE IF IsUserControl(evt)
             THEN LocalScan(evs, k + 1, cursor, ScanControl(cs, evt),
                      IF IsNew(evt, cursor) THEN Advance(last_ts, evt) ELSE last_ts,
                      seen, mentions_enabled)
             ELSE IF ~IsNew(evt, cursor)
             THEN LocalScan(evs, k + 1, cursor, cs, last_ts, seen, mentions_enabled)
             ELSE IF evt.id \in seen
             THEN LocalScan(evs, k + 1, cursor, cs, Advance(last_ts, evt), seen,
                            mentions_enabled)
             ELSE IF Stage1(evt, cs, mentions_enabled) = "skip"
             THEN LocalScan(evs, k + 1, cursor, cs, Advance(last_ts, evt),
                            Remember(seen, evt.id), mentions_enabled)
             ELSE [pos |-> k, control_state |-> cs,
                   last_ts |-> Advance(last_ts, evt),
                   seen |-> Remember(seen, evt.id)]

\* The requests of bodies served one after the other: each is admitted
\* against the log as it is then, and the first rejection (409) raises in
\* _http_json.  tie[k] tells whether stamp k repeats the clock reading.
RECURSIVE Serve(_, _, _, _, _, _, _)
Serve(t, evs, ck, id, n, bodies, tie) ==
    IF bodies = << >>
    THEN [log |-> evs, clock |-> ck, nextId |-> id, ties |-> n, ok |-> TRUE]
    ELSE IF Admission(evs, Head(bodies)) # "ok"
         THEN [log |-> evs, clock |-> ck, nextId |-> id, ties |-> n, ok |-> FALSE]
    ELSE LET ts == IF Head(tie) THEN ck ELSE ck + 1
         IN  Serve(t, Append(evs, Entry(t, Head(bodies), id, ts)), ts, id + 1,
                   IF Head(tie) THEN n + 1 ELSE n, Tail(bodies), Tail(tie))

---------------------------------------------------------------------------
(* Initial state: a server with no thread; a coordinator that has loaded   *)
(* an empty state file, found no thread to seek and sleeps before a tick.  *)

\* sought[t]: length of the list fetched in the last tick that found no
\* cursor for t; startup[t]: length of the log of t at the last start of the
\* process; ran: the invocations made before the last start
NoHistory == [sought  |-> [t \in Threads |-> 0],
              startup |-> [t \in Threads |-> 0],
              ran     |-> {}]

NoResp == [n |-> 0, code |-> 0, error |-> "", thread |-> NoThread,
           body |-> Body("", "", "", "")]

SystemInit(mention_configs) ==
    /\ clock = 0
    /\ index = << >>
    /\ log = [t \in Threads |-> << >>]
    /\ inflight = {}
    /\ updating = {}
    /\ nextId = 1
    /\ posts = 0
    /\ ties = 0
    /\ failures = 0
    /\ resp = NoResp
    /\ pc = "idle"
    /\ thread_id = NoThread
    /\ state = [t \in Threads |-> NoTs]
    /\ saved = [t \in Threads |-> NoTs]
    /\ processed_ids = [t \in Threads |-> {}]
    /\ since = NoTs
    /\ fetched = 0
    /\ pos = 1
    /\ control_state = _default_control_state
    /\ target_agents = << >>
    /\ enable_mentions \in mention_configs
    /\ calls = << >>
    /\ starts = 0
    /\ history = NoHistory
    /\ active_invocations = {}
    /\ presence_posts = << >>

\* No presence entry, no stream, and no call made yet
NoPresence == << >>
NoStream == [open |-> FALSE]
NoCall == [op |-> ""]
CallInit ==
    /\ presence = NoPresence
    /\ stream = NoStream
    /\ args = NoCall
    /\ result = NoCall

InitWith(mention_configs) == SystemInit(mention_configs) /\ CallInit

Init == InitWith({TRUE})

InIndex(t) == \E k \in DOMAIN index : index[k] = t

\* coordinator.py 534: the event list of the scan.  The log is append-only,
\* so the list fetched is the prefix of the log of that length.
events == SubSeq(log[thread_id], 1, fetched)

\* The clock readings a handler may stamp: a later one, or (a bounded
\* number of times) the reading of the stamp before
TieChoices == IF clock > 0 /\ ties < MaxTies THEN BOOLEAN ELSE {FALSE}
Stamped(tie) == IF tie THEN clock ELSE clock + 1
TiesAfter(tie) == IF tie THEN ties + 1 ELSE ties

\* The tie choices of n stamps in a row
TiePatterns(n) ==
    { tie \in [1..n -> BOOLEAN] :
        /\ (clock = 0 /\ n > 0 => ~tie[1])
        /\ ties + Cardinality({ k \in 1..n : tie[k] }) <= MaxTies }

---------------------------------------------------------------------------
(* Server actions *)

\* server.py create_thread: the index entry and the thread.created event
CreateThread(t) ==
    /\ ~InIndex(t)
    /\ \E tie \in TieChoices :
         /\ clock' = Stamped(tie)
         /\ ties' = TiesAfter(tie)
         /\ log' = [log EXCEPT ![t] = Append(@,
                       Entry(t, Body("thread.created", "user", "all", "Untitled"),
                             nextId, Stamped(tie)))]
    /\ index' = Append(index, t)
    /\ nextId' = nextId + 1
    /\ UNCHANGED << inflight, updating, posts, resp, enable_mentions >>
    /\ UNCHANGED coordVars
    /\ UNCHANGED callVars

\* server.py post_thread_event, the handler running without preemption:
\* admission, stamp and write
Post(t, body) ==
    /\ InIndex(t)
    /\ posts < MaxPosts
    /\ Admission(log[t], body) = "ok"
    /\ \E tie \in TieChoices :
         /\ clock' = Stamped(tie)
         /\ ties' = TiesAfter(tie)
         /\ log' = [log EXCEPT ![t] = Append(@, Entry(t, body, nextId, Stamped(tie)))]
    /\ nextId' = nextId + 1
    /\ posts' = posts + 1
    /\ UNCHANGED << index, inflight, updating, resp, enable_mentions >>
    /\ UNCHANGED coordVars
    /\ UNCHANGED callVars

\* server.py post_thread_event and write_thread_event up to the stamp
\* (line 126): the handler is preempted before it writes its line
PostStamp(t, body) ==
    /\ InIndex(t)
    /\ posts < MaxPosts
    /\ Cardinality(inflight) < MaxDelayed
    /\ Admission(log[t], body) = "ok"
    /\ \E tie \in TieChoices :
         /\ clock' = Stamped(tie)
         /\ ties' = TiesAfter(tie)
         /\ inflight' = inflight \cup { Entry(t, body, nextId, Stamped(tie)) }
    /\ nextId' = nextId + 1
    /\ posts' = posts + 1
    /\ UNCHANGED << index, log, updating, resp, enable_mentions >>
    /\ UNCHANGED coordVars
    /\ UNCHANGED callVars

\* server.py write_thread_event 133-134: a preempted handler writes its line
PostWrite(e) ==
    /\ e \in inflight
    /\ log' = [log EXCEPT ![e.thread] = Append(@, e)]
    /\ inflight' = inflight \ {e}
    /\ UNCHANGED << clock, index, updating, nextId, posts, ties, resp,
                    enable_mentions >>
    /\ UNCHANGED coordVars
    /\ UNCHANGED callVars

\* server.py post_thread_event with its response: 409 and the reason when
\* admission rejects the body, 200 when the event is appended
Respond(t, body) ==
    /\ InIndex(t)
    /\ resp.n < MaxRequests
    /\ IF Admission(log[t], body) # "ok"
       THEN /\ resp' = [n |-> resp.n + 1, code |-> 409,
                        error |-> Admission(log[t], body),
                        thread |-> t, body |-> body]
            /\ UNCHANGED << clock, ties, log, nextId, posts >>
       ELSE /\ posts < MaxPosts
            /\ \E tie \in TieChoices :
                 /\ clock' = Stamped(tie)
                 /\ ties' = TiesAfter(tie)
                 /\ log' = [log EXCEPT ![t] =
                               Append(@, Entry(t, body, nextId, Stamped(tie)))]
            /\ nextId' = nextId + 1
            /\ posts' = posts + 1
            /\ resp' = [n |-> resp.n + 1, code |-> 200, error |-> "",
                        thread |-> t, body |-> body]
    /\ UNCHANGED << index, inflight, updating, enable_mentions >>
    /\ UNCHANGED coordVars
    /\ UNCHANGED callVars

---------------------------------------------------------------------------
(* Server actions: the handlers that update conversations/index.json, with *)
(* the preemptions between the load of the index, its save and the write   *)
(* of the line.  A handler in updating is [thread, threads, at]: threads   *)
(* is the list it loaded, at the statement it is about to run.             *)

MaxUpdating == 2
MaxStarts == 1
IndexThreads == {"T1", "T2"}

Handler(t, threads, at) == [thread |-> t, threads |-> threads, at |-> at]

\* server.py update_thread_index 99-118: the list the handler saves
Updated(threads, t) ==
    IF \E k \in DOMAIN threads : threads[k] = t
    THEN threads
    ELSE Append(threads, t)

\* server.py create_thread 360-364, update_thread_index 99-100: a fresh
\* thread id is drawn and the index is loaded
CreateLoad(t) ==
    /\ t \in DOMAIN log
    /\ log[t] = << >>
    /\ ~InIndex(t)
    /\ \A h \in updating : h.thread # t
    /\ Cardinality(updating) < MaxUpdating
    /\ updating' = updating \cup { Handler(t, index, "save") }
    /\ UNCHANGED << clock, index, log, inflight, nextId, posts, ties, resp,
                    enable_mentions >>
    /\ UNCHANGED coordVars
    /\ UNCHANGED callVars

\* server.py update_thread_index 101-118: the handler saves the list it
\* loaded, with its thread added if it was not in it; create_thread then
\* goes on to write_thread_event
IndexSave(h) ==
    /\ h \in updating
    /\ h.at \in {"save", "save again"}
    /\ index' = Updated(h.threads, h.thread)
    /\ updating' = (updating \ {h})
                     \cup (IF h.at = "save"
                           THEN { Handler(h.thread, << >>, "write") }
                           ELSE {})
    /\ UNCHANGED << clock, log, inflight, nextId, posts, ties, resp,
                    enable_mentions >>
    /\ UNCHANGED coordVars
    /\ UNCHANGED callVars

\* server.py write_thread_event 125-136 for thread.created, and
\* update_thread_index 99-100: the line is written and the index loaded again
WriteCreated(h) ==
    /\ h \in updating
    /\ h.at = "write"
    /\ \E tie \in TieChoices :
         /\ clock' = Stamped(tie)
         /\ ties' = TiesAfter(tie)
         /\ log' = [log EXCEPT ![h.thread] = Append(@,
                       Entry(h.thread,
                             Body("thread.created", "user", "all", "Untitled"),
                             nextId, Stamped(tie)))]
    /\ nextId' = nextId + 1
    /\ updating' = (updating \ {h}) \cup { Handler(h.thread, index, "save again") }
    /\ UNCHANGED << index, inflight, posts, resp, enable_mentions >>
    /\ UNCHANGED coordVars
    /\ UNCHANGED callVars

\* server.py post_thread_event and write_thread_event 125-138 for a
\* thread.renamed event, and update_thread_index 99-100: the line is written
\* and the index loaded
RenameLoad(t) ==
    /\ t \in DOMAIN log
    /\ log[t] # << >>
    /\ posts < MaxPosts
    /\ Cardinality(updating) < MaxUpdating
    /\ \E tie \in TieChoices :
         /\ clock' = Stamped(tie)
         /\ ties' = TiesAfter(tie)
         /\ log' = [log EXCEPT ![t] = Append(@,
                       Entry(t, Body("thread.renamed", "user", "all", "Renamed"),
                             nextId, Stamped(tie)))]
    /\ nextId' = nextId + 1
    /\ posts' = posts + 1
    /\ updating' = updating \cup { Handler(t, index, "save again") }
    /\ UNCHANGED << index, inflight, resp, enable_mentions >>
    /\ UNCHANGED coordVars
    /\ UNCHANGED callVars

---------------------------------------------------------------------------
(* Server: one SSE stream.  stream holds the locals of the generator       *)
(* stream_thread_events (last_ts, last_heartbeat), the time now counted in *)
(* the one-second sleeps of its loop, and what it has yielded: emitted,    *)
(* the positions in the log of the events sent, and beats, the times of    *)
(* the keep-alive comments.                                                *)

MaxSeconds == 36
KeepAliveSeconds == 15

\* server.py read_thread_events raises TypeError when since is given and
\* the ts of a line is not a string
ReadRaises(evs, cursor) ==
    cursor # NoTs /\ \E k \in DOMAIN evs : evs[k].ts = NotAString

\* The positions in the log of the events read_thread_events returns
ReadPositions(evs, cursor) ==
    SelectSeq([k \in DOMAIN evs |-> k],
              LAMBDA k : cursor = NoTs \/ ~(evs[k].ts <= cursor))

\* server.py 322: last_ts = evt.get("ts") or last_ts, over the events read
RECURSIVE LastTsAfter(_, _, _)
LastTsAfter(evs, positions, last_ts) ==
    IF positions = << >> THEN last_ts
    ELSE LastTsAfter(evs, Tail(positions),
                     IF evs[Head(positions)].ts # NoTs
                     THEN evs[Head(positions)].ts ELSE last_ts)

\* A keep-alive that comes after 25 seconds
KeepAliveDueLate(now, last_heartbeat) == now - last_heartbeat >= 25

\* server.py 323: time.time() - last_heartbeat >= 15
KeepAliveDue(now, last_heartbeat) == now - last_heartbeat >= KeepAliveSeconds

\* server.py 311-317: the generator starts: without since the cursor goes
\* to the ts of the last event of the log
StreamOpen(t, cursor) ==
    /\ ~stream.open
    /\ InIndex(t)
    /\ stream' = [open |-> TRUE, thread |-> t, since |-> cursor,
                  last_ts |-> IF cursor = NoTs /\ log[t] # << >>
                              THEN Last(log[t]).ts ELSE cursor,
                  at_open |-> Len(log[t]),
                  now |-> 0, last_heartbeat |-> 0,
                  emitted |-> << >>, beats |-> {}]
    /\ UNCHANGED << presence, args, result, enable_mentions >>
    /\ UNCHANGED serverVars
    /\ UNCHANGED coordVars

\* server.py 318-327: one turn of the loop: the events after last_ts are
\* read and yielded, last_ts follows them, a keep-alive is yielded when it
\* is due, and the generator sleeps one second
StreamPoll ==
    /\ stream.open
    /\ stream.now < MaxSeconds
    /\ LET evs == log[stream.thread]
           positions == ReadPositions(evs, stream.last_ts)
           due == KeepAliveDue(stream.now, stream.last_heartbeat)
       IN  IF ReadRaises(evs, stream.last_ts)
           THEN stream' = NoStream
           ELSE stream' = [stream EXCEPT
                  !.emitted = @ \o positions,
                  !.last_ts = LastTsAfter(evs, positions, @),
                  !.beats = IF due THEN @ \cup {stream.now} ELSE @,
                  !.last_heartbeat = IF due THEN stream.now ELSE @,
                  !.now = @ + 1]
    /\ UNCHANGED << presence, args, result, enable_mentions >>
    /\ UNCHANGED serverVars
    /\ UNCHANGED coordVars

---------------------------------------------------------------------------
(* Server: presence.  presence maps <<thread, participant>> to the entry   *)
(* {state, updated_at, details?}; a details dict is named by its text, and *)
(* NoDetails stands for None or an entry without the key.                  *)

MaxSets == 3
PresenceThreads == {"T1", "T2"}
PresenceStates == {"thinking", "listening"}
NoDetails == "None"
NotADict == "a string"
DetailsDicts == {"{}", "{nickname: cx}"}

\* entry.get("details") of the stored entry, None when there is no entry
StoredDetails(pres, t, p) ==
    IF << t, p >> \in DOMAIN pres THEN pres[<< t, p >>].details ELSE NoDetails

\* set_presence that stores no details when it is given none
SetPresenceDropsDetails(pres, t, p, new_state, details, now) ==
    [ key \in DOMAIN pres \cup { << t, p >> } |->
        IF key = << t, p >>
        THEN [state |-> new_state, updated_at |-> now, details |-> details]
        ELSE pres[key] ]

\* server.py set_presence 272-286: the entry of (thread, participant) is
\* replaced; without details the details of the entry it replaces are kept
set_presence(pres, t, p, new_state, details, now) ==
    [ key \in DOMAIN pres \cup { << t, p >> } |->
        IF key = << t, p >>
        THEN [state |-> new_state, updated_at |-> now,
              details |-> IF details = NoDetails
                          THEN StoredDetails(pres, t, p)
                          ELSE details]
        ELSE pres[key] ]

\* server.py get_presence_snapshot 288-309: the details reported for the
\* participants of a thread
SnapshotOf(pres, t) ==
    [ p \in { q \in Agents : << t, q >> \in DOMAIN pres } |->
        pres[<< t, p >>].details ]
get_presence_snapshot(t) == SnapshotOf(presence, t)

\* server.py post_thread_presence 431-446: 400 when details is given and is
\* not an object, otherwise set_presence with the reading of the clock
PostPresence(t, p, new_state, details) ==
    /\ args.op = "set_presence"
    /\ result.n < MaxSets
    /\ args' = [op |-> "set_presence", thread |-> t, participant |-> p,
                state |-> new_state, details |-> details]
    /\ IF details = NotADict
       THEN /\ result' = [op |-> "set_presence", n |-> result.n + 1, code |-> 400]
            /\ UNCHANGED << presence, clock >>
       ELSE /\ result' = [op |-> "set_presence", n |-> result.n + 1, code |-> 200]
            /\ clock' = clock + 1
            /\ presence' = set_presence(presence, t, p, new_state, details, clock + 1)
    /\ UNCHANGED << index, log, inflight, updating, nextId, posts, ties, resp,
                    stream, enable_mentions >>
    /\ UNCHANGED coordVars

---------------------------------------------------------------------------
(* Coordinator actions *)

\* The loop goes on from index k of the fetched events
\* coordinator.py 362-381, _post_presence, as the history keeps it: the
\* state posted last for the participant in the thread
Posted(sent, t, p, new_state) ==
    [k \in DOMAIN sent \cup {<< t, p >>} |->
       IF k = << t, p >> THEN new_state ELSE sent[k]]

\* An exit that leaves the pair in the set
DiscardNothing(invocations, t, agent) == invocations

\* coordinator.py 692: active_invocations.discard((thread_id, agent_id))
Discard(invocations, t, agent) == invocations \ {<< t, agent >>}

Resume(t, evs, k, cursor, cs, last_ts, seen) ==
    LET r == LocalScan(evs, k, cursor, cs, last_ts, seen, enable_mentions)
    IN  /\ pos' = r.pos
        /\ control_state' = r.control_state
        /\ state' = [state EXCEPT ![t] = r.last_ts]
        /\ processed_ids' = [processed_ids EXCEPT ![t] = r.seen]

\* _http_json raises on a 409 and nothing in main() catches it: the process
\* ends, and with it the locals of the scan
Crash ==
    /\ pc' = "crashed"
    /\ thread_id' = NoThread
    /\ since' = NoTs
    /\ fetched' = 0
    /\ pos' = 1
    /\ control_state' = _default_control_state
    /\ target_agents' = << >>
    /\ active_invocations' = {}
    /\ UNCHANGED << state, processed_ids, calls >>

\* coordinator.py 487-606: in a tick, for a thread of the list, the events
\* are fetched; without a cursor the cursor goes to the tail and nothing is
\* scanned; with one the loop over the events starts
FetchThread(t) ==
    /\ pc = "idle"
    /\ InIndex(t)
    /\ LET evs == read_thread_events(log[t], NoTs)
       IN  IF state[t] = NoTs
           THEN /\ evs # << >>
                /\ state' = [state EXCEPT ![t] = Last(evs).ts]
                /\ history' = [history EXCEPT !.sought[t] = Len(evs)]
                /\ UNCHANGED << pc, thread_id, since, fetched, pos,
                                control_state, processed_ids >>
           ELSE /\ thread_id' = t
                /\ UNCHANGED history
                /\ fetched' = Len(evs)
                /\ since' = state[t]
                /\ Resume(t, evs, 1, state[t], _default_control_state,
                          state[t], processed_ids[t])
                /\ pc' = "scan"
    /\ UNCHANGED << saved, target_agents, failures, calls, enable_mentions,
                    starts, active_invocations, presence_posts >>
    /\ UNCHANGED serverVars
    /\ UNCHANGED callVars

\* coordinator.py 608-683: the event at pos was not skipped: presence is
\* fetched, the mentions are resolved, the notices are posted and the
\* adapter of the first target starts; with no target the loop goes on
ScanStep ==
    /\ pc = "scan"
    /\ pos <= fetched
    /\ LET t == thread_id
           evt == events[pos]
       IN  \E snap \in PresenceSnapshots :
           \E tie \in TiePatterns(Len(Decide(evt, control_state, snap,
                                              enable_mentions).notices)) :
             LET d == Decide(evt, control_state, snap, enable_mentions)
                 served == Serve(t, log[t], clock, nextId, ties, d.notices, tie)
             IN  /\ log' = [log EXCEPT ![t] = served.log]
                 /\ clock' = served.clock
                 /\ nextId' = served.nextId
                 /\ ties' = served.ties
                 /\ IF ~served.ok
                    THEN Crash /\ UNCHANGED presence_posts
                    ELSE IF d.targets = << >>
                    THEN /\ Resume(t, events, pos + 1, since, control_state,
                                   state[t], processed_ids[t])
                         /\ UNCHANGED << pc, thread_id, since, fetched,
                                         target_agents, calls,
                                         active_invocations, presence_posts >>
                    ELSE /\ pc' = "run"
                         /\ target_agents' = d.targets
                         /\ calls' = Invoke(calls, t, evt.id, Head(d.targets))
                         /\ active_invocations' =
                              active_invocations \cup {<< t, Head(d.targets) >>}
                         /\ presence_posts' =
                              Posted(presence_posts, t, Head(d.targets), "thinking")
                         /\ UNCHANGED << thread_id, since, fetched, pos,
                                         control_state, state, processed_ids >>
    /\ UNCHANGED << saved, failures, enable_mentions, starts, history >>
    /\ UNCHANGED << index, inflight, updating, posts, resp >>
    /\ UNCHANGED callVars

\* coordinator.py 685-724: the adapter of the first target exits with rc and
\* its reply or the error message is appended; then the adapter of the next
\* target starts, or the loop goes on
AdapterExit(rc) ==
    /\ pc = "run"
    /\ rc # 0 => failures < MaxFailures
    /\ failures' = IF rc # 0 THEN failures + 1 ELSE failures
    /\ LET t == thread_id
           evt == events[pos]
           agent == Head(target_agents)
           body == IF rc = 0 THEN Reply(agent, evt) ELSE ErrorMessage(agent, evt)
       IN  \E tie \in TiePatterns(1) :
             LET served == Serve(t, log[t], clock, nextId, ties, << body >>, tie)
             IN  /\ log' = [log EXCEPT ![t] = served.log]
                 /\ clock' = served.clock
                 /\ nextId' = served.nextId
                 /\ ties' = served.ties
                 /\ IF ~served.ok
                    THEN /\ Crash
                         /\ presence_posts' =
                              Posted(presence_posts, t, agent, "listening")
                    ELSE IF Tail(target_agents) = << >>
                    THEN /\ pc' = "scan"
                         /\ target_agents' = << >>
                         /\ active_invocations' =
                              Discard(active_invocations, t, agent)
                         /\ presence_posts' =
                              Posted(presence_posts, t, agent, "listening")
                         /\ Resume(t, events, pos + 1, since, control_state,
                                   state[t], processed_ids[t])
                         /\ UNCHANGED << thread_id, since, fetched, calls >>
                    ELSE /\ target_agents' = Tail(target_agents)
                         /\ calls' = Invoke(calls, t, evt.id, Head(Tail(target_agents)))
                         /\ active_invocations' =
                              Discard(active_invocations, t, agent)
                              \cup {<< t, Head(Tail(target_agents)) >>}
                         /\ presence_posts' =
                              Posted(Posted(presence_posts, t, agent, "listening"),
                                     t, Head(Tail(target_agents)), "thinking")
                         /\ UNCHANGED << pc, thread_id, since, fetched, pos,
                                         control_state, state, processed_ids >>
    /\ UNCHANGED << saved, enable_mentions, starts, history >>
    /\ UNCHANGED << index, inflight, updating, posts, resp >>
    /\ UNCHANGED callVars

\* coordinator.py 726: the events are exhausted, the state file is written;
\* the locals of the scan are dead from here on
FinishThread ==
    /\ pc = "scan"
    /\ pos > fetched
    /\ saved' = state
    /\ pc' = "idle"
    /\ thread_id' = NoThread
    /\ since' = NoTs
    /\ fetched' = 0
    /\ pos' = 1
    /\ control_state' = _default_control_state
    /\ UNCHANGED << state, processed_ids, target_agents, failures, calls,
                    enable_mentions, starts, history, active_invocations,
                    presence_posts >>
    /\ UNCHANGED serverVars
    /\ UNCHANGED callVars

\* The process is stopped from outside between two statements of main():
\* what it had in memory is gone, the state file stays as last written
Stop ==
    /\ pc \in {"idle", "scan"}
    /\ Crash
    /\ UNCHANGED << saved, failures, enable_mentions, starts, history,
                    presence_posts >>
    /\ UNCHANGED serverVars
    /\ UNCHANGED callVars

\* coordinator.py 445-485: the process starts again: the state file is
\* loaded, processed_ids is empty; with startup_mode = end the cursor of
\* every listed thread that has events goes to the ts of its last event and
\* the state is saved, unless the requests to the bridge fail (seek_ok)
Start(startup_mode, seek_ok) ==
    /\ pc = "crashed"
    /\ starts < MaxStarts
    /\ starts' = starts + 1
    /\ pc' = "idle"
    /\ processed_ids' = [t \in Threads |-> {}]
    /\ state' = IF startup_mode = "end" /\ seek_ok
                THEN [t \in Threads |->
                        IF InIndex(t) /\ log[t] # << >> /\ HasTs(Last(log[t]))
                        THEN Last(log[t]).ts ELSE saved[t]]
                ELSE saved
    /\ saved' = IF startup_mode = "end" /\ seek_ok THEN state' ELSE saved
    /\ history' = [history EXCEPT !.startup = [t \in Threads |-> Len(log[t])],
                                   !.ran = DOMAIN calls]
    /\ UNCHANGED << thread_id, since, fetched, pos, control_state,
                    target_agents, failures, calls, enable_mentions,
                    active_invocations, presence_posts >>
    /\ UNCHANGED serverVars
    /\ UNCHANGED callVars

---------------------------------------------------------------------------
(* Specifications *)

Step(bodies) ==
    \/ \E t \in Threads : CreateThread(t)
    \/ \E t \in Threads, body \in bodies : Post(t, body)
    \/ \E t \in Threads, body \in bodies : PostStamp(t, body)
    \/ \E e \in inflight : PostWrite(e)
    \/ \E t \in Threads : FetchThread(t)
    \/ ScanStep
    \/ \E rc \in ExitCodes : AdapterExit(rc)
    \/ FinishThread

Next == Step(ClientBodies)
Spec == Init /\ [][Next]_vars

InitDiscussion == InitWith({TRUE})
NextDiscussion == Step(DiscussionBodies)
SpecDiscussion == InitDiscussion /\ [][NextDiscussion]_vars

InitSkip == InitWith(BOOLEAN)
NextSkip == Step(SkipBodies)
SpecSkip == InitSkip /\ [][NextSkip]_vars

InitS1 == InitWith({TRUE})
NextS1 == Step(S1Bodies)
CoordinatorStep ==
    \/ \E t \in Threads : FetchThread(t)
    \/ ScanStep
    \/ \E rc \in ExitCodes : AdapterExit(rc)
    \/ FinishThread
\* The loop of main() never stops by itself, and a handler that has stamped
\* its entry goes on to write it
SpecS1 ==
    /\ InitS1
    /\ [][NextS1]_vars
    /\ WF_vars(CoordinatorStep)
    /\ WF_vars(\E e \in inflight : PostWrite(e))

\* The handlers of the server run one at a time here
InitNotices == InitWith({TRUE})
NextNotices ==
    \/ \E t \in Threads : CreateThread(t)
    \/ \E t \in Threads, body \in NoticeBodies : Post(t, body)
    \/ \E t \in Threads : FetchThread(t)
    \/ ScanStep
    \/ \E rc \in ExitCodes : AdapterExit(rc)
    \/ FinishThread
SpecNotices == InitNotices /\ [][NextNotices]_vars

\* The handlers of POST /threads and of thread.renamed events in parallel;
\* the coordinator is not running
InitIndex ==
    /\ clock = 0
    /\ index = << >>
    /\ log = [t \in IndexThreads |-> << >>]
    /\ inflight = {}
    /\ updating = {}
    /\ nextId = 1
    /\ posts = 0
    /\ ties = 0
    /\ failures = 0
    /\ resp = NoResp
    /\ pc = "idle"
    /\ thread_id = NoThread
    /\ state = [t \in Threads |-> NoTs]
    /\ saved = [t \in Threads |-> NoTs]
    /\ processed_ids = [t \in Threads |-> {}]
    /\ since = NoTs
    /\ fetched = 0
    /\ pos = 1
    /\ control_state = _default_control_state
    /\ target_agents = << >>
    /\ enable_mentions = TRUE
    /\ calls = << >>
    /\ starts = 0
    /\ history = NoHistory
    /\ active_invocations = {}
    /\ presence_posts = << >>
    /\ CallInit
NextIndex ==
    \/ \E t \in IndexThreads : CreateLoad(t)
    \/ \E h \in updating : IndexSave(h)
    \/ \E h \in updating : WriteCreated(h)
    \/ \E t \in IndexThreads : RenameLoad(t)
SpecIndex == InitIndex /\ [][NextIndex]_vars

\* The coordinator is stopped, or ends on a 409, and is started again; the
\* handlers of the server run one at a time
RestartBodies ==
    { Message("user", "codex", "hi @claude"),
      Control("user", "obj {pause: {on: true}}") }
Run ==
    \/ \E t \in Threads : CreateThread(t)
    \/ \E t \in Threads, body \in RestartBodies : Post(t, body)
    \/ \E t \in Threads : FetchThread(t)
    \/ ScanStep
    \/ \E rc \in ExitCodes : AdapterExit(rc)
    \/ FinishThread
    \/ Stop

InitEnd == InitWith({TRUE})
NextEnd == Run \/ \E seek_ok \in BOOLEAN : Start("end", seek_ok)
SpecEnd == InitEnd /\ [][NextEnd]_vars

InitResume == InitWith({TRUE})
NextResume == Run \/ Start("resume", TRUE)
SpecResume == InitResume /\ [][NextResume]_vars

\* The reducers applied to event lists: the server's, the coordinator's
\* _control_state_before_event and the control state of the coordinator's
\* loop over the list
MaxEvents == 3
HighTs == 9
AbsentId == 0

ReducerBodies ==
    { Control("user", "obj {mute: {targets: [codex]}}"),
      Control("user", "obj {mute: {targets: [claude, ' '], mode: hard}}"),
      Control("user", "obj {mute: {targets: [claude], mode: soft}}"),
      Control("user", "str {unmute: {targets: [ codex ]}}"),
      Control("user", "obj {pause: {}}"),
      Control("user", "str {pause: {on: false}}"),
      Control("user", "obj {discussion: {on: true}}"),
      Control("user", "obj {discussion: {on: true, allow_agent_mentions: false}}"),
      Control("user", "str {pause"),
      Control("codex", "obj {pause: {on: true}}"),
      Message("user", "all", "obj {pause: {on: true}}"),
      Carrying(Control("user", "obj {mute: {targets: [codex]}}"), [ts |-> NoTs]) }

\* The event lists of at most MaxEvents lines written from those bodies; the
\* k-th line has id k and the stamp k
EventLists ==
    UNION { { [k \in 1..n |-> Entry("T1", bodies[k], k, k)] :
              bodies \in [1..n -> ReducerBodies] } : n \in 0..MaxEvents }

\* coordinator.py 539-559: the control state of the loop when it has gone
\* through the whole list (no event of the list is new)
ScanAll(evs) ==
    LocalScan(evs, 1, HighTs, _default_control_state, HighTs, {}, TRUE).control_state

Reduce ==
    /\ args.op = "reduce"
    /\ result = NoCall
    /\ result' = [op |-> "reduce",
                  server |-> _derive_thread_state(args.events),
                  before |-> _control_state_before_event(args.events, AbsentId),
                  scan   |-> ScanAll(args.events)]
    /\ UNCHANGED << presence, stream, args >>
    /\ UNCHANGED serverVars
    /\ UNCHANGED coordVars
    /\ UNCHANGED enable_mentions

InitReducer ==
    /\ SystemInit({TRUE})
    /\ presence = NoPresence
    /\ stream = NoStream
    /\ args \in { [op |-> "reduce", events |-> evs] : evs \in EventLists }
    /\ result = NoCall
NextReducer == Reduce
SpecReducer == InitReducer /\ [][NextReducer]_vars

\* Calls of read_thread_events on the logs of at most MaxEvents lines whose
\* ts is a string, the empty string or not a string (a line written from a
\* body that carries its own ts), and a second call with the same since
\* after one more line was appended
ReadStamps == {1, 2, NoTs, NotAString}
ReadCursors == {NoTs, 1, 2}
ReadLine(k, ts) == Entry("T1", Carrying(Message("user", "all", "hello"), [ts |-> ts]), k, k)
ReadLogs ==
    UNION { { [k \in 1..n |-> ReadLine(k, stamps[k])] :
              stamps \in [1..n -> ReadStamps] } : n \in 0..MaxEvents }

\* server.py 142-154: the call returns the list or raises
ReadResult(evs, cursor) ==
    IF ReadRaises(evs, cursor) THEN [raised |-> TRUE, events |-> << >>]
    ELSE [raised |-> FALSE, events |-> read_thread_events(evs, cursor)]

ReadEvents ==
    /\ args.op = "read"
    /\ result = NoCall
    /\ result' = [op |-> "read", earlier |-> << >>,
                  read |-> ReadResult(args.events, args.since)]
    /\ UNCHANGED << presence, stream, args, enable_mentions >>
    /\ UNCHANGED serverVars
    /\ UNCHANGED coordVars

ReadAgain(ts) ==
    /\ args.op = "read"
    /\ result # NoCall
    /\ ~result.read.raised
    /\ Len(args.events) <= MaxEvents
    /\ LET evs == Append(args.events, ReadLine(Len(args.events) + 1, ts))
       IN  /\ args' = [args EXCEPT !.events = evs]
           /\ result' = [op |-> "read", earlier |-> result.read.events,
                         read |-> ReadResult(evs, args.since)]
    /\ UNCHANGED << presence, stream, enable_mentions >>
    /\ UNCHANGED serverVars
    /\ UNCHANGED coordVars

InitRead ==
    /\ SystemInit({TRUE})
    /\ presence = NoPresence
    /\ stream = NoStream
    /\ result = NoCall
    /\ \E evs \in ReadLogs, cursor \in ReadCursors :
         args = [op |-> "read", events |-> evs, since |-> cursor]
NextRead ==
    \/ ReadEvents
    \/ \E ts \in ReadStamps : ReadAgain(ts)
SpecRead == InitRead /\ [][NextRead]_vars

\* Calls of _truncate.  A text is the sequence of its characters; the texts
\* are the runs of one letter of at most MaxText characters, the limits go
\* from 0 to MaxLimit.
MaxText == 30
MaxLimit == 24

\* Python text[:k]: a negative k counts from the end
SliceTo(text, k) ==
    IF k >= 0 THEN SubSeq(text, 1, IF k < Len(text) THEN k ELSE Len(text))
    ELSE SubSeq(text, 1, IF Len(text) + k > 0 THEN Len(text) + k ELSE 0)

\* "\n\n[truncated]\n"
TruncatedMarker ==
    << "\n", "\n", "[", "t", "r", "u", "n", "c", "a", "t", "e", "d", "]", "\n" >>

\* coordinator.py 80-83
_truncate(text, max_chars) ==
    IF Len(text) <= max_chars THEN text
    ELSE SliceTo(text, max_chars - 20) \o TruncatedMarker

Texts == { [k \in 1..n |-> "a"] : n \in 0..MaxText }

Truncate ==
    /\ args.op = "truncate"
    /\ result = NoCall
    /\ result' = [op |-> "truncate",
                  once |-> _truncate(args.text, args.max_chars),
                  twice |-> _truncate(_truncate(args.text, args.max_chars),
                                      args.max_chars)]
    /\ UNCHANGED << presence, stream, args, enable_mentions >>
    /\ UNCHANGED serverVars
    /\ UNCHANGED coordVars

InitTruncate ==
    /\ SystemInit({TRUE})
    /\ presence = NoPresence
    /\ stream = NoStream
    /\ result = NoCall
    /\ \E text \in Texts, n \in 0..MaxLimit :
         args = [op |-> "truncate", text |-> text, max_chars |-> n]
NextTruncate == Truncate
SpecTruncate == InitTruncate /\ [][NextTruncate]_vars

\* Calls of ulid.  A Python integer is the sequence of its limbs of 25 bits
\* (five base-32 digits), the least significant first: a timestamp below
\* 2^48 has two limbs, the 80 random bits have four.
Limb == 33554432

BASE32_ALPHABET ==
    << "0", "1", "2", "3", "4", "5", "6", "7", "8", "9", "A", "B", "C", "D",
       "E", "F", "G", "H", "J", "K", "M", "N", "P", "Q", "R", "S", "T", "V",
       "W", "X", "Y", "Z" >>

\* The code points of the characters of the alphabet, by which Python
\* compares strings
CodePoints ==
    << 48, 49, 50, 51, 52, 53, 54, 55, 56, 57, 65, 66, 67, 68,
       69, 70, 71, 72, 74, 75, 77, 78, 80, 81, 82, 83, 84, 86,
       87, 88, 89, 90 >>
Ord(c) == CodePoints[CHOOSE k \in DOMAIN BASE32_ALPHABET : BASE32_ALPHABET[k] = c]

\* value >>= 5, limb by limb from limb i on
RECURSIVE ShiftFrom(_, _)
ShiftFrom(value, i) ==
    IF i > Len(value) THEN << >>
    ELSE << (value[i] \div 32)
            + (IF i < Len(value) THEN (value[i + 1] % 32) * (Limb \div 32)
               ELSE 0) >>
         \o ShiftFrom(value, i + 1)
ShiftRight5(value) == ShiftFrom(value, 1)

\* server.py 51-53: the characters in the order the loop appends them
RECURSIVE EncodeChars(_, _)
EncodeChars(value, length) ==
    IF length = 0 THEN << >>
    ELSE << BASE32_ALPHABET[(value[1] % 32) + 1] >>
         \o EncodeChars(ShiftRight5(value), length - 1)

RECURSIVE Reversed(_)
Reversed(chars) ==
    IF chars = << >> THEN << >>
    ELSE Reversed(Tail(chars)) \o << Head(chars) >>

\* An encoding that keeps the order of the loop
EncodeNotReversed(value, length) == EncodeChars(value, length)

\* server.py 47-54
_encode_base32(value, length) == Reversed(EncodeChars(value, length))

\* server.py 57-62, with the clock reading and the random bits it draws
ulid(timestamp_ms, randbits) ==
    _encode_base32(timestamp_ms, 10) \o _encode_base32(randbits, 16)

\* Timestamps below 2^48 and random parts of 80 bits
Timestamps ==
    { << lo, hi >> : lo \in {0, 1, 31, 32, 1024, Limb - 1},
                     hi \in {0, 1, 32, (Limb \div 4) - 1} }
RandomParts ==
    { << 0, 0, 0, 0 >>, << 1, 0, 0, 0 >>, << 5, 77, Limb - 1, 17 >>,
      << Limb - 1, Limb - 1, Limb - 1, 31 >> }

Ulids ==
    /\ args.op = "ulid"
    /\ result = NoCall
    /\ result' = [op |-> "ulid",
                  first |-> ulid(args.t1, args.r1),
                  second |-> ulid(args.t2, args.r2)]
    /\ UNCHANGED << presence, stream, args, enable_mentions >>
    /\ UNCHANGED serverVars
    /\ UNCHANGED coordVars

InitUlid ==
    /\ SystemInit({TRUE})
    /\ presence = NoPresence
    /\ stream = NoStream
    /\ result = NoCall
    /\ \E t1 \in Timestamps, t2 \in Timestamps,
          r1 \in RandomParts, r2 \in RandomParts :
         args = [op |-> "ulid", t1 |-> t1, r1 |-> r1, t2 |-> t2, r2 |-> r2]
NextUlid == Ulids
SpecUlid == InitUlid /\ [][NextUlid]_vars

\* Appends of bodies that carry fields of their own: the id of the first
\* event of the thread, the name of another thread, a ts
AppendBodies ==
    { Message("user", "all", "hello"),
      Carrying(Message("user", "all", "hello"), [id |-> 1]),
      Carrying(Message("user", "all", "hello"), [thread |-> "T2"]),
      Carrying(Message("user", "all", "hello"), [ts |-> 1]) }
InitAppend == InitWith({TRUE})
NextAppend ==
    \/ \E t \in Threads : CreateThread(t)
    \/ \E t \in Threads, body \in AppendBodies : Post(t, body)
SpecAppend == InitAppend /\ [][NextAppend]_vars

\* The heartbeat and the invocation of the adapters, statement by statement
\* (coordinator.py 495-514, 681-724).  The scan that leads to line 681 is
\* left out: Dispatch puts the loop at the head of "for agent_id in
\* target_agents" for a message of the user that is in the log and a target
\* list.  pc: "invoke" at line 681, "added" behind 683, "run" while the
\* adapter runs, "finally" when it has returned or raised, "discarded"
\* behind 692, "listened" behind 693.
InvokeBodies ==
    { Message("user", "all", "@claude @Codex, hi"),
      Control("user", "obj {pause: {on: true}}") }
TargetLists == { << "codex" >>, << "claude", "codex" >> }
\* rc of the adapter: its exit code, 124 for a timeout, 125 for an error
\* of the spawn
Outcomes == {0, 3, 124, 125}

\* coordinator.py 497-513: the heartbeat posts listening for every agent
\* that is not in active_invocations and for the coordinator, in every
\* listed thread
Heartbeat ==
    /\ pc = "idle"
    /\ \E t \in Threads : InIndex(t)
    /\ LET posted == { k \in { t \in Threads : InIndex(t) }
                              \X (Agents \cup {coordinator_id}) :
                         k[2] = coordinator_id \/ k \notin active_invocations }
       IN  presence_posts' =
             [k \in DOMAIN presence_posts \cup posted |->
                IF k \in posted THEN "listening" ELSE presence_posts[k]]
    /\ UNCHANGED << pc, thread_id, state, saved, processed_ids, since, fetched,
                    pos, control_state, target_agents, failures, calls, starts,
                    history, active_invocations, enable_mentions >>
    /\ UNCHANGED serverVars
    /\ UNCHANGED callVars

Dispatch(t, k, targets) ==
    /\ pc = "idle"
    /\ InIndex(t)
    /\ k \in DOMAIN log[t]
    /\ log[t][k].type = "message" /\ log[t][k].from = "user"
    /\ \A a \in Agents : << t, log[t][k].id, a >> \notin DOMAIN calls
    /\ pc' = "invoke"
    /\ thread_id' = t
    /\ fetched' = Len(log[t])
    /\ pos' = k
    /\ target_agents' = targets
    /\ UNCHANGED << state, saved, processed_ids, since, control_state,
                    failures, calls, starts, history, active_invocations,
                    presence_posts, enable_mentions >>
    /\ UNCHANGED serverVars
    /\ UNCHANGED callVars

\* coordinator.py 683
InvokeAdd ==
    /\ pc = "invoke"
    /\ active_invocations' =
         active_invocations \cup {<< thread_id, Head(target_agents) >>}
    /\ pc' = "added"
    /\ UNCHANGED << thread_id, state, saved, processed_ids, since, fetched,
                    pos, control_state, target_agents, failures, calls, starts,
                    history, presence_posts, enable_mentions >>
    /\ UNCHANGED serverVars
    /\ UNCHANGED callVars

\* coordinator.py 684-686: thinking is posted and the adapter starts
PostThinking ==
    /\ pc = "added"
    /\ presence_posts' =
         Posted(presence_posts, thread_id, Head(target_agents), "thinking")
    /\ calls' = Invoke(calls, thread_id, events[pos].id, Head(target_agents))
    /\ pc' = "run"
    /\ UNCHANGED << thread_id, state, saved, processed_ids, since, fetched,
                    pos, control_state, target_agents, failures, starts,
                    history, active_invocations, enable_mentions >>
    /\ UNCHANGED serverVars
    /\ UNCHANGED callVars

\* coordinator.py 685-690: the adapter exits, times out or fails to start
AdapterReturn ==
    /\ pc = "run"
    /\ pc' = "finally"
    /\ UNCHANGED << thread_id, state, saved, processed_ids, since, fetched,
                    pos, control_state, target_agents, failures, calls, starts,
                    history, active_invocations, presence_posts,
                    enable_mentions >>
    /\ UNCHANGED serverVars
    /\ UNCHANGED callVars

\* coordinator.py 691-692
InvokeDiscard ==
    /\ pc = "finally"
    /\ active_invocations' =
         Discard(active_invocations, thread_id, Head(target_agents))
    /\ pc' = "discarded"
    /\ UNCHANGED << thread_id, state, saved, processed_ids, since, fetched,
                    pos, control_state, target_agents, failures, calls, starts,
                    history, presence_posts, enable_mentions >>
    /\ UNCHANGED serverVars
    /\ UNCHANGED callVars

\* coordinator.py 693
PostListening ==
    /\ pc = "discarded"
    /\ presence_posts' =
         Posted(presence_posts, thread_id, Head(target_agents), "listening")
    /\ pc' = "listened"
    /\ UNCHANGED << thread_id, state, saved, processed_ids, since, fetched,
                    pos, control_state, target_agents, failures, calls, starts,
                    history, active_invocations, enable_mentions >>
    /\ UNCHANGED serverVars
    /\ UNCHANGED callVars

\* coordinator.py 695-724: the reply (rc = 0) or the error message is
\* appended, and the loop goes to the next target or leaves
AppendOutcome(rc) ==
    /\ pc = "listened"
    /\ LET t == thread_id
           evt == events[pos]
           agent == Head(target_agents)
           body == IF rc = 0 THEN Reply(agent, evt) ELSE ErrorMessage(agent, evt)
       IN  \E tie \in TiePatterns(1) :
             LET served == Serve(t, log[t], clock, nextId, ties, << body >>, tie)
             IN  /\ log' = [log EXCEPT ![t] = served.log]
                 /\ clock' = served.clock
                 /\ nextId' = served.nextId
                 /\ ties' = served.ties
                 /\ IF ~served.ok
                    THEN Crash
                    ELSE IF Tail(target_agents) = << >>
                    THEN /\ pc' = "idle"
                         /\ thread_id' = NoThread
                         /\ fetched' = 0
                         /\ pos' = 1
                         /\ target_agents' = << >>
                         /\ UNCHANGED << since, control_state, state,
                                         processed_ids, calls,
                                         active_invocations >>
                    ELSE /\ pc' = "invoke"
                         /\ target_agents' = Tail(target_agents)
                         /\ UNCHANGED << thread_id, since, fetched, pos,
                                         control_state, state, processed_ids,
                                         calls, active_invocations >>
    /\ UNCHANGED << saved, failures, enable_mentions, starts, history,
                    presence_posts >>
    /\ UNCHANGED << index, inflight, updating, posts, resp >>
    /\ UNCHANGED callVars

InitInvoke == InitWith({TRUE})
NextInvoke ==
    \/ \E t \in Threads : CreateThread(t)
    \/ \E t \in Threads, body \in InvokeBodies : Post(t, body)
    \/ Heartbeat
    \/ \E t \in Threads, k \in 1..MaxPosts + 1, targets \in TargetLists :
         Dispatch(t, k, targets)
    \/ InvokeAdd
    \/ PostThinking
    \/ AdapterReturn
    \/ InvokeDiscard
    \/ PostListening
    \/ \E rc \in Outcomes : AppendOutcome(rc)
SpecInvoke == InitInvoke /\ [][NextInvoke]_vars

\* Messages addressed to an agent, to a participant that is no agent and to
\* all, with mentions of agents, of a participant known from presence only
\* and of a client; the appends are one step each
TargetBodies ==
    { Message("user", "codex", "hi @claude"),
      Message("user", "gemini", "@codex"),
      Message("user", "all", "@gemini @cli"),
      Message("user", "all", "@claude @Codex, hi") }
InitTargets == InitWith({TRUE})
NextTargets ==
    \/ \E t \in Threads : CreateThread(t)
    \/ \E t \in Threads, body \in TargetBodies : Post(t, body)
    \/ \E t \in Threads : FetchThread(t)
    \/ ScanStep
    \/ \E rc \in ExitCodes : AdapterExit(rc)
    \/ FinishThread
SpecTargets == InitTargets /\ [][NextTargets]_vars

\* Handlers of POST in parallel, for a pause and a mute of the user and a
\* message of an agent; the coordinator is not running
AdmissionBodies ==
    { Control("user", "obj {pause: {on: true}}"),
      Control("user", "obj {mute: {targets: [codex]}}"),
      Control("user", "str {unmute: {targets: [ codex ]}}"),
      Message("codex", "all", "ok") }
InitAdmission == InitWith({TRUE})
NextAdmission ==
    \/ \E t \in Threads : CreateThread(t)
    \/ \E t \in Threads, body \in AdmissionBodies : Post(t, body)
    \/ \E t \in Threads, body \in AdmissionBodies : PostStamp(t, body)
    \/ \E e \in inflight : PostWrite(e)
SpecAdmission == InitAdmission /\ [][NextAdmission]_vars

\* One SSE stream and the coordinator on a thread to which the user posts
\* messages for codex; the appends are one step each, two of them can get
\* the same ts; the stream is followed for MaxPolls turns of its loop
MaxPolls == 3
DeliveryBodies == { Message("user", "all", "hello @codex") }
InitDelivery == InitWith({TRUE})
NextDelivery ==
    \/ \E t \in Threads : CreateThread(t)
    \/ \E t \in Threads, body \in DeliveryBodies : Post(t, body)
    \/ \E t \in Threads : StreamOpen(t, NoTs)
    \/ (stream.open /\ stream.now < MaxPolls /\ StreamPoll)
    \/ \E t \in Threads : FetchThread(t)
    \/ ScanStep
    \/ \E rc \in ExitCodes : AdapterExit(rc)
    \/ FinishThread
SpecDelivery == InitDelivery /\ [][NextDelivery]_vars

\* The coordinator stopped and started again with startup_mode = end, on a
\* thread with handlers of POST in parallel
CursorBodies == { Message("user", "codex", "hi @claude") }
InitCursor == InitWith({TRUE})
NextCursor ==
    \/ Step(CursorBodies)
    \/ Stop
    \/ \E seek_ok \in BOOLEAN : Start("end", seek_ok)
SpecCursor == InitCursor /\ [][NextCursor]_vars

\* One SSE stream on a thread, with the handlers of POST in parallel; the
\* coordinator is not running
StreamBodies == { Message("user", "codex", "hi @claude") }
StreamCursors == {NoTs, 1}
InitStream == InitWith({TRUE})
NextStream ==
    \/ \E t \in Threads : CreateThread(t)
    \/ \E t \in Threads, body \in StreamBodies : Post(t, body)
    \/ \E t \in Threads, body \in StreamBodies : PostStamp(t, body)
    \/ \E e \in inflight : PostWrite(e)
    \/ \E t \in Threads, cursor \in StreamCursors : StreamOpen(t, cursor)
    \/ StreamPoll
SpecStream == InitStream /\ [][NextStream]_vars

\* Presence updates, one request after the other
InitPresence ==
    /\ SystemInit({TRUE})
    /\ presence = NoPresence
    /\ stream = NoStream
    /\ args = [op |-> "set_presence", thread |-> NoThread, participant |-> "",
               state |-> "", details |-> NoDetails]
    /\ result = [op |-> "set_presence", n |-> 0, code |-> 0]
NextPresence ==
    \E t \in PresenceThreads, p \in Agents, new_state \in PresenceStates,
       details \in DetailsDicts \cup {NoDetails, NotADict} :
      PostPresence(t, p, new_state, details)
SpecPresence == InitPresence /\ [][NextPresence]_vars

InitServer == InitWith({TRUE})
NextServer ==
    \/ \E t \in Threads : CreateThread(t)
    \/ \E t \in Threads, body \in ServerBodies : Respond(t, body)
SpecServer == InitServer /\ [][NextServer]_vars

---------------------------------------------------------------------------
(* Properties.  calls is the history the properties speak about: the       *)
(* adapter of agent a was started calls[<<t, id, a>>] times with the event *)
(* id of thread t as trigger.                                              *)

Range(seq) == { seq[k] : k \in DOMAIN seq }
Max(S) == CHOOSE m \in S : \A n \in S : n <= m

Invoked(t, id, a) == << t, id, a >> \in DOMAIN calls
EventOf(t, id) == log[t][FirstWithId(log[t], id, 1)]
\* The fold of the user controls positioned before the event in the log
StateBefore(t, id) == _control_state_before_event(log[t], id)

\* The scan has gone through the whole fetched list
ScanDone == pc = "scan" /\ pos > fetched
\* The positions of the fetched list whose ts is over the cursor of the scan
NewInScan == { k \in 1..fetched : IsNew(events[k], since) }

\* The agents the dispatch rules give for an event under a control state
Expected(evt, cs) ==
    IF Stage1(evt, cs, enable_mentions) = "skip" THEN {}
    ELSE Range(Decide(evt, cs, NoSnapshot, enable_mentions).targets)

\* C1: within one run of the coordinator, for every thread, event id and
\* agent, the adapter of the agent is invoked with that event as trigger at
\* most once, the bulk clear of processed_ids included.
AtMostOnce == \A key \in DOMAIN calls : calls[key] <= 1

CursorProgress ==
    ScanDone => \A k \in NewInScan : state[thread_id] >= events[k].ts

\* C4: the adapter of an agent is never invoked for a message that the agent
\* itself sent and that mentions the agent, whatever the to of the message.
NoSelfWake ==
    \A key \in DOMAIN calls :
       LET e == EventOf(key[1], key[2])
       IN  ~(/\ e.type = "message"
             /\ e.from = key[3]
             /\ key[3] \in _extract_mentions(e.content))

\* C5: a message of a sender other than user is answered 409
\* participant_muted when the sender is muted in the state derived from the
\* whole log, otherwise 409 thread_paused when that state is paused, and
\* otherwise appended; a rejected request leaves the log as it was; a request
\* of user is never rejected.  The derived state is taken with the reducer of
\* the coordinator.
AdmissionAnswer ==
    [][resp'.n # resp.n =>
         LET b  == resp'.body
             st == FoldControls(log[resp'.thread], _default_control_state)
         IN  /\ (b.type = "message" /\ b.from # "user") =>
                   IF b.from \in st.muted
                   THEN resp'.code = 409 /\ resp'.error = "participant_muted"
                   ELSE IF st.paused
                   THEN resp'.code = 409 /\ resp'.error = "thread_paused"
                   ELSE resp'.code = 200
             /\ (resp'.code = 409 => log' = log)
             /\ (resp'.code = 200 =>
                   Len(log'[resp'.thread]) = Len(log[resp'.thread]) + 1)
             /\ (b.from = "user" => resp'.code = 200)]_vars

\* A message of a muted agent rejected as muted while the thread is paused
MutedRejected ==
    /\ resp.code = 409
    /\ resp.error = "participant_muted"
    /\ resp.body.type = "message"
    /\ FoldControls(log[resp.thread], _default_control_state).paused

SkipCase(evt, cs) ==
    \/ evt.from = coordinator_id
    \/ evt.to = "user"
    \/ evt.type # "message"
    \/ cs.paused

\* C7: an event of the skip rules never triggers an adapter, and the loop
\* that meets it as a new event goes on to the next event with the cursor at
\* its ts; when it is the last new event of a scan, the cursor of the thread
\* is its ts at the end of the scan.
SkipRulesHold ==
    /\ \A key \in DOMAIN calls :
          ~SkipCase(EventOf(key[1], key[2]), StateBefore(key[1], key[2]))
    /\ pc \in {"scan", "run"} =>
          \A k \in NewInScan :
             LET cs == StateBefore(thread_id, events[k].id)
                 r  == LocalScan(SubSeq(events, 1, k), k, since, cs, since,
                                 processed_ids[thread_id], enable_mentions)
             IN  SkipCase(events[k], cs) =>
                    r.pos = k + 1 /\ r.last_ts = events[k].ts
    /\ (ScanDone /\ NewInScan # {}) =>
          LET k == Max(NewInScan)
          IN  SkipCase(events[k], StateBefore(thread_id, events[k].id)) =>
                 state[thread_id] = events[k].ts

\* The last new event of a scan is a message of the user that mentions
\* codex, met while the thread is paused: no adapter, cursor at its ts
PausedMessageSkipped ==
    /\ ScanDone
    /\ enable_mentions
    /\ NewInScan # {}
    /\ LET e == events[Max(NewInScan)]
       IN  /\ e.type = "message" /\ e.from = "user" /\ e.to = "all"
           /\ "codex" \in _extract_mentions(e.content)
           /\ StateBefore(thread_id, e.id).paused
           /\ state[thread_id] = e.ts
           /\ \A a \in Agents : ~Invoked(thread_id, e.id, a)

\* Position k of the log of t holds a message of scenario S1
S1Posted(t, k) ==
    /\ k <= Len(log[t])
    /\ log[t][k].type = "message" /\ log[t][k].from = "user"
    /\ log[t][k].to = "all"
    /\ "codex" \in _extract_mentions(log[t][k].content)
    /\ ~StateBefore(t, log[t][k].id).paused
    /\ "codex" \notin StateBefore(t, log[t][k].id).muted

\* codex was invoked once, and claude never, for the message at position k
S1Dispatched(t, k) ==
    /\ k <= Len(log[t])
    /\ Invoked(t, log[t][k].id, "codex")
    /\ calls[<< t, log[t][k].id, "codex" >>] = 1
    /\ ~Invoked(t, log[t][k].id, "claude")

\* C8: a message of the user to all that mentions codex, in a thread that is
\* not paused and where codex is not muted, leads to one invocation of codex
\* with that message as trigger and none of claude.
S1Dispatch ==
    \A t \in Threads : \A k \in 1..(1 + 2 * MaxPosts) :
       [](S1Posted(t, k) => <>S1Dispatched(t, k))

\* C9: a message to all never triggers an adapter when its mention set is
\* empty or when enable_mentions is false.
NoFanOut ==
    \A key \in DOMAIN calls :
       LET e == EventOf(key[1], key[2])
       IN  e.to = "all" =>
              enable_mentions /\ _extract_mentions(e.content) # {}

\* A scan with two new messages of the user to all in a thread that is not
\* paused: the one that mentions codex was dispatched, the one whose mention
\* set is empty was not
NoMentionNoCall ==
    /\ ScanDone
    /\ enable_mentions
    /\ \E i, k \in NewInScan :
          /\ Invoked(thread_id, events[i].id, "codex")
          /\ events[k].type = "message" /\ events[k].from = "user"
          /\ events[k].to = "all"
          /\ _extract_mentions(events[k].content) = {}
          /\ ~StateBefore(thread_id, events[k].id).paused
          /\ \A a \in Agents : ~Invoked(thread_id, events[k].id, a)

Handled(t, id) ==
    /\ id \in processed_ids[t]
    /\ ~(pc = "scan" /\ thread_id = t /\ pos <= fetched /\ events[pos].id = id)

\* A to=all message the loop does not skip and whose mentions are honoured
Honoured(t, evt) ==
    /\ evt.type = "message"
    /\ evt.to = "all"
    /\ evt.from # coordinator_id
    /\ enable_mentions
    /\ ~StateBefore(t, evt.id).paused
    /\ MayMention(evt, StateBefore(t, evt.id))

NoticesFor(t, id) ==
    { k \in DOMAIN log[t] :
        /\ log[t][k].from = coordinator_id
        /\ log[t][k].to = "user"
        /\ log[t][k].reply_to = id }

\* C11: every to=all message whose mentions are honoured and that mentions
\* a reserved word gets a coordinator message to=user saying that reserved
\* mentions are not supported, and no adapter is started for it
ReservedMentionsRefused ==
    \A t \in Threads : \A k \in DOMAIN log[t] :
      LET evt == log[t][k]
          hits == IF evt.type = "message"
                  THEN _extract_mentions(evt.content) \cap Reserved ELSE {}
      IN  (Honoured(t, evt) /\ hits # {}) =>
            /\ \A a \in Agents : ~Invoked(t, evt.id, a)
            /\ Handled(t, evt.id) =>
                  \E n \in NoticesFor(t, evt.id) :
                    log[t][n].content = ReservedNotice(evt, hits).content

\* The texts an ambiguity notice can have for the event: one for each
\* directory in which a mention of the event is ambiguous
AmbiguityTexts(evt) ==
    { AmbiguityNotice(evt,
        _resolve_mentions(_extract_mentions(evt.content),
                          _build_participant_index(snap)).ambiguous,
        _build_participant_index(snap)).content :
      snap \in { sn \in PresenceSnapshots :
                   DOMAIN _resolve_mentions(_extract_mentions(evt.content),
                            _build_participant_index(sn)).ambiguous # {} } }

\* C12: a message with a mention that matches no participant id and the
\* nickname of two or more participants gets one message to=user that lists
\* every candidate as id - display, and no adapter is started for it
AmbiguityRefused ==
    \A t \in Threads : \A k \in DOMAIN log[t] :
      LET evt == log[t][k]
          told == { n \in NoticesFor(t, evt.id) :
                      log[t][n].content \in AmbiguityTexts(evt) }
      IN  (evt.type = "message" /\ evt.from # coordinator_id /\ told # {}) =>
            /\ Cardinality(told) = 1
            /\ \A a \in Agents : ~Invoked(t, evt.id, a)

\* The step in which the adapter of the first target exits with code 0,
\* and the one in which it exits with another code
ExitZero ==
    /\ pc = "run"
    /\ failures' = failures
    /\ (pc' # pc \/ target_agents' # target_agents)
ExitNonZero == pc = "run" /\ failures' # failures

\* The step appends one event to the thread of the scan, and body is that
\* event but for id, ts and thread
Appends(body) ==
    /\ Len(log'[thread_id]) = Len(log[thread_id]) + 1
    /\ SubSeq(log'[thread_id], 1, Len(log[thread_id])) = log[thread_id]
    /\ LET e == Last(log'[thread_id])
       IN  /\ e.type = body.type
           /\ e.from = body.from
           /\ e.to = body.to
           /\ e.reply_to = body.reply_to
           /\ e.tags = body.tags

\* C13: when an adapter ends with a non-zero exit code, one message
\* from=coordinator_id, to=all, tagged coordinator and error, with reply_to
\* the trigger id is appended to the thread and the coordinator goes on: the
\* process does not end, whatever the user appended while the adapter ran
AdapterFailureReported ==
    [][ExitNonZero =>
         /\ Appends([type |-> "message", from |-> coordinator_id, to |-> "all",
                     reply_to |-> events[pos].id,
                     tags |-> {"coordinator", "error"}])
         /\ pc' # "crashed"]_vars

\* C14: when the adapter for trigger E and agent A exits 0, exactly one
\* message from=A, to=all with reply_to = E.id is appended to the thread,
\* whatever controls the user appended while the adapter ran
ReplyAppended ==
    [][ExitZero =>
         Appends([type |-> "message", from |-> Head(target_agents), to |-> "all",
                  reply_to |-> events[pos].id, tags |-> {"coordinator"}])]_vars

\* C15: no failure of a request of the coordinator to the bridge, a 409 to
\* an append included, ends the main loop
LoopNeverEnds == pc # "crashed"

\* C19: in every interleaving of the handlers of POST /threads/{id}/events
\* on one thread, the events of the log are in non-decreasing order of ts
LogOrdered ==
    \A t \in Threads : \A k \in 1..(Len(log[t]) - 1) :
      log[t][k].ts <= log[t][k + 1].ts

Occurrences(t) == Cardinality({ k \in DOMAIN index : index[k] = t })
Created(t) == \E k \in DOMAIN log[t] : log[t][k].type = "thread.created"

\* C20: after any interleaving of POST /threads requests and of appends of
\* thread.renamed events, the index lists every created thread exactly once,
\* each thread of the index has a thread.created event in its log, and no
\* entry is ever removed from the index
IndexKeepsThreads ==
    /\ [](updating = {} =>
            \A t \in DOMAIN log :
              /\ Created(t) => Occurrences(t) = 1
              /\ InIndex(t) => Created(t))
    /\ [][\A t \in DOMAIN log : InIndex(t) => InIndex(t)']_vars

\* The step starts an adapter
Invokes == calls' # calls
\* The invocation the step makes
Invocation ==
    CHOOSE key \in DOMAIN calls' :
      key \notin DOMAIN calls \/ calls'[key] # calls[key]

\* C16: a tick that finds no cursor for a thread starts no adapter and
\* appends no event for it and sets the cursor to the ts of the last event of
\* the fetched list; no event of that list is dispatched in a later tick
SeekToTail ==
    [][/\ \A t \in Threads :
            (pc = "idle" /\ state[t] = NoTs /\ state'[t] # NoTs) =>
              /\ calls' = calls
              /\ log' = log
              /\ state'[t] = Last(log[t]).ts
       /\ Invokes => pos > history.sought[thread_id]]_vars

\* C17: with startup_mode = end no event that was in the log of a thread at
\* the start is dispatched to an adapter, whatever cursors the state file
\* held and whether or not the requests of the start succeeded
NoBacklogAfterStart ==
    [][Invokes => pos > history.startup[thread_id]]_vars

\* C18: with startup_mode = resume, after a stop at any point and a restart,
\* no event is dispatched again to an agent whose adapter had already run
\* for it before the stop
NoRedispatchAfterRestart ==
    [][Invokes => Invocation \notin history.ran]_vars

\* The user controls of an event list, in the order of the list
UserControlsOf(evs) ==
    SelectSeq(evs, LAMBDA e : e.type = "control" /\ e.from = "user")

RefMute(st, c) ==
    IF c.mute.has /\ c.mute.mode \in {"", "hard"}
    THEN [st EXCEPT !.muted = @ \cup ({ Strip(c.mute.targets[k]) :
                                         k \in DOMAIN c.mute.targets } \ {""})]
    ELSE st
RefUnmute(st, c) ==
    IF c.unmute.has
    THEN [st EXCEPT !.muted = @ \ { Strip(c.unmute.targets[k]) :
                                      k \in DOMAIN c.unmute.targets }]
    ELSE st
RefPause(st, c) ==
    IF c.pause.has
    THEN [st EXCEPT !.paused = (c.pause.on \in {"true", "absent"})]
    ELSE st
RefDiscussion(st, c) ==
    IF c.discussion.has
    THEN [st EXCEPT !.discussion =
            [on |-> c.discussion.on \in {"true", "absent"},
             allow_agent_mentions |->
               IF c.discussion.allow = "absent"
               THEN c.discussion.on \in {"true", "absent"}
               ELSE c.discussion.allow = "true"]]
    ELSE st
RECURSIVE ReferenceFold(_, _)
ReferenceFold(evs, st) ==
    IF evs = << >> THEN st
    ELSE LET e == Head(evs)
             c == Json(e.content)
         IN  ReferenceFold(Tail(evs),
               IF e.type = "control" /\ e.from = "user" /\ c.form \in {"obj", "json"}
               THEN RefDiscussion(RefPause(RefUnmute(RefMute(st, c), c), c), c)
               ELSE st)
Reference(evs) ==
    ReferenceFold(evs, [paused |-> FALSE, muted |-> {},
                        discussion |-> [on |-> FALSE,
                                        allow_agent_mentions |-> FALSE]])

ReducersAgree ==
    result.op = "reduce" =>
      /\ result.server = result.before
      /\ result.before = result.scan

StreamOrderedOnce ==
    stream.open =>
      /\ \A i, j \in DOMAIN stream.emitted :
            i < j => stream.emitted[i] < stream.emitted[j]
      /\ stream.since = NoTs =>
            \A i \in DOMAIN stream.emitted : stream.emitted[i] > stream.at_open

\* C25: on a stream on which no event is delivered, a keep-alive comment is
\* emitted at least once in every window of 20 seconds, the time counted in
\* the one-second steps of the loop
KeepAliveEvery20 ==
    (stream.open /\ stream.emitted = << >>) =>
      \A w \in 0..(stream.now - 20) :
        \E b \in stream.beats : w <= b /\ b <= w + 20

\* An idle stream that has been open for more than 30 seconds and has sent
\* its keep-alives at 15 and 30
IdleStreamBeats ==
    /\ stream.open
    /\ stream.emitted = << >>
    /\ stream.now > 30
    /\ stream.beats = {15, 30}

LaterThan(evs, cursor) ==
    IF cursor = NoTs THEN evs
    ELSE SelectSeq(evs, LAMBDA e : e.ts # NotAString /\ e.ts > cursor)

IsPrefix(s, t) == Len(s) <= Len(t) /\ SubSeq(t, 1, Len(s)) = s

\* C26: read_thread_events(thread, since) returns, in log order, exactly the
\* events of the log whose ts is strictly greater than since, and the whole
\* log when since is empty or absent; for a fixed since the result of an
\* earlier read is a prefix of the result of every later read
ReadReturnsLaterEvents ==
    result.op = "read" =>
      /\ ~result.read.raised
      /\ result.read.events = LaterThan(args.events, args.since)
      /\ IsPrefix(result.earlier, result.read.events)

\* C27: for every string x and every limit n >= 0, _truncate(_truncate(x, n), n)
\* equals _truncate(x, n) and the length of _truncate(x, n) is at most n
TruncateIdempotentBounded ==
    result.op = "truncate" =>
      /\ result.twice = result.once
      /\ Len(result.once) <= args.max_chars

\* t1 < t2 for two timestamps in limbs
Earlier(t1, t2) == t1[2] < t2[2] \/ (t1[2] = t2[2] /\ t1[1] < t2[1])

\* a < b for two Python strings
LexLess(a, b) ==
    \/ Len(a) < Len(b) /\ SubSeq(b, 1, Len(a)) = a
    \/ \E k \in 1..Len(a) :
         /\ k <= Len(b)
         /\ SubSeq(a, 1, k - 1) = SubSeq(b, 1, k - 1)
         /\ Ord(a[k]) < Ord(b[k])

\* C28: ulid() returns a string of 26 characters of the Crockford alphabet,
\* and of two ids generated at the milliseconds t1 < t2 (both below 2^48)
\* the first is lexicographically smaller, whatever the random parts
UlidOrdered ==
    result.op = "ulid" =>
      /\ \A id \in {result.first, result.second} :
            /\ Len(id) = 26
            /\ \A k \in DOMAIN id :
                  \E j \in DOMAIN BASE32_ALPHABET : id[k] = BASE32_ALPHABET[j]
      /\ Earlier(args.t1, args.t2) => LexLess(result.first, result.second)

\* Two ids of consecutive milliseconds, the earlier one with all random bits
\* set and the later one with none
UlidRandomAgainstOrder ==
    /\ result.op = "ulid"
    /\ args.t1 = << 31, 1 >>
    /\ args.t2 = << 32, 1 >>
    /\ args.r1 = << Limb - 1, Limb - 1, Limb - 1, 31 >>
    /\ args.r2 = << 0, 0, 0, 0 >>
    /\ result.first = << "0", "0", "0", "0", "1", "0", "0", "0", "0", "Z",
                         "Z", "Z", "Z", "Z", "Z", "Z", "Z", "Z", "Z", "Z",
                         "Z", "Z", "Z", "Z", "Z", "Z" >>

\* C29: every event stored by an append has an id that differs from the id
\* of every other event of the log of the thread, and a thread field equal
\* to the thread it was appended to, for every request body, the bodies
\* that carry their own id, ts or thread included
AppendsKeepIdAndThread ==
    \A t \in Threads :
      /\ \A i, j \in DOMAIN log[t] : i # j => log[t][i].id # log[t][j].id
      /\ \A i \in DOMAIN log[t] : log[t][i].thread = t

\* The fold of the user controls of the list whose ts is strictly earlier
\* than the ts of the event
StateOfEarlierTs(evs, evt) ==
    FoldControls(SelectSeq(evs, LAMBDA c : IsUserControl(c) /\ c.ts < evt.ts),
                 _default_control_state)

\* C31: the control state used to gate the dispatch of a message E includes
\* a user control C if and only if C.ts < E.ts, also when C and E carry the
\* same ts: where the loop stops to dispatch, control_state is the fold of
\* the user controls with a strictly earlier ts
ControlsOfEarlierTs ==
    (pc \in {"scan", "run"} /\ pos <= fetched) =>
       control_state = StateOfEarlierTs(events, events[pos])

\* The pair of the invocation the loop is in
InvocationPair == << thread_id, Head(target_agents) >>
LastPosted(sent, p) == IF p \in DOMAIN sent THEN sent[p] ELSE ""

\* The set holds the pair from line 683 to line 692 and nothing else;
\* thinking is the last post while the adapter runs, listening behind 693
InvocationInv ==
    /\ active_invocations =
         (IF pc \in {"added", "run", "finally"} THEN {InvocationPair} ELSE {})
    /\ Cardinality(active_invocations) <= 1
    /\ pc \in {"run", "finally", "discarded"} =>
         LastPosted(presence_posts, InvocationPair) = "thinking"
    /\ pc = "listened" =>
         LastPosted(presence_posts, InvocationPair) = "listening"

\* thinking is posted for a pair that is in the set; a pair leaves the set
\* after thinking was posted for it; listening replaces thinking only for a
\* pair that has left the set; a heartbeat finds the set empty
InvocationSteps ==
    /\ \A p \in DOMAIN presence_posts' :
         /\ (LastPosted(presence_posts, p) # "thinking"
               /\ presence_posts'[p] = "thinking")
              => p \in active_invocations
         /\ (LastPosted(presence_posts, p) = "thinking"
               /\ presence_posts'[p] = "listening")
              => p \notin active_invocations
    /\ \A p \in active_invocations \ active_invocations' :
         LastPosted(presence_posts, p) = "thinking"
    /\ (pc = "idle" /\ presence_posts' # presence_posts)
         => active_invocations = {}

\* C32: active_invocations holds the pair (thread, agent) exactly while the
\* adapter of the agent runs for the thread: the pair is added before
\* thinking is posted, on every outcome it is removed and listening is
\* posted after thinking, at most one pair is in the set, and the set is
\* empty whenever a heartbeat runs
InvocationBracketed == []InvocationInv /\ [][InvocationSteps]_vars

\* Both agents were invoked for one message, one of the adapters failed,
\* and a heartbeat has run since
HeartbeatAfterFailure ==
    /\ pc = "idle"
    /\ active_invocations = {}
    /\ \E t \in Threads :
         /\ LastPosted(presence_posts, << t, coordinator_id >>) = "listening"
         /\ \E id \in 1..nextId : \A a \in Agents : Invoked(t, id, a)
         /\ \E k \in DOMAIN log[t] : "error" \in log[t][k].tags
         /\ \A a \in Agents :
              LastPosted(presence_posts, << t, a >>) = "listening"

\* The agent is what some mention of the text resolves to under some
\* presence snapshot
ResolvedFromMention(a, content) ==
    \E snap \in PresenceSnapshots, m \in _extract_mentions(content) :
       a \in ResolveOne(m, _build_participant_index(snap)).ids

\* C33: every adapter invocation for a trigger message E targets a
\* configured agent A such that E.to = A, or E.to = all and A is resolved
\* from a mention in E.content; so a message with to=A invokes no other
\* agent, a message to an id that is no configured agent invokes nothing,
\* and a participant known from presence only is never invoked
TargetsAddressedOrMentioned ==
    \A key \in DOMAIN calls :
       LET E == EventOf(key[1], key[2])
           A == key[3]
       IN  /\ A \in Agents
           /\ \/ E.to = A
              \/ E.to = "all" /\ ResolvedFromMention(A, E.content)

\* The scan has passed a message to codex that mentions claude, a message
\* to gemini that mentions codex and a message to all that mentions gemini
\* and the client of codex: codex alone was invoked for the first and for
\* the third, nothing for the second
OnlyTheAddressed ==
    /\ pc = "idle"
    /\ \E t \in Threads :
         \E i, j, k \in DOMAIN log[t] :
           /\ log[t][i].to = "codex" /\ log[t][i].content = "hi @claude"
           /\ Invoked(t, log[t][i].id, "codex")
           /\ ~Invoked(t, log[t][i].id, "claude")
           /\ log[t][j].to = "gemini"
           /\ state[t] >= log[t][j].ts
           /\ \A a \in Agents : ~Invoked(t, log[t][j].id, a)
           /\ log[t][k].content = "@gemini @cli"
           /\ Invoked(t, log[t][k].id, "codex")
           /\ ~Invoked(t, log[t][k].id, "claude")

\* C34: admission and append are atomic with respect to parallel appends on
\* the same thread: in every reachable log no message of a participant P
\* other than the user is positioned after a user control that paused the
\* thread or hard-muted P, unless a later user control positioned before the
\* message unpaused the thread or unmuted P
AdmittedWhereWritten ==
    \A t \in Threads :
      \A k \in DOMAIN log[t] :
        (log[t][k].type = "message" /\ log[t][k].from # "user") =>
           LET st == _derive_thread_state(SubSeq(log[t], 1, k - 1))
           IN  ~st.paused /\ log[t][k].from \notin st.muted

\* C35: every event appended to a thread while an SSE stream of the thread
\* is open is eventually emitted on the stream, and every event appended to
\* a thread that has a coordinator cursor is examined by the coordinator in
\* a later tick, also when its ts equals the ts of the last event delivered
\* or the cursor.  Neither cursor goes back when the log is in ts order, so
\* an event at or behind the cursor is never read again: no event appended
\* while the stream is open is unemitted with the cursor of the stream at or
\* over its ts, and between two ticks no message of the user for codex,
\* appended to a thread with a cursor, is undispatched with the cursor of
\* the coordinator at or over its ts
NoEventSkipped ==
    /\ stream.open =>
         \A k \in (stream.at_open + 1)..Len(log[stream.thread]) :
            \/ k \in Range(stream.emitted)
            \/ log[stream.thread][k].ts > stream.last_ts
    /\ \A t \in Threads :
         (pc = "idle" /\ state[t] # NoTs) =>
            \A k \in (history.sought[t] + 1)..Len(log[t]) :
               (log[t][k].from = "user" /\ log[t][k].type = "message")
                 => \/ log[t][k].ts > state[t]
                    \/ Invoked(t, log[t][k].id, "codex")

\* C36: for every thread the cursor last_ts of the coordinator never
\* decreases from one tick to the next, and the cursor written to the state
\* file never decreases from one save to the next, for any sequence of
\* events appended to the thread: the cursor a scan leaves is at or over the
\* cursor it started from, a tick that finds no cursor does not lower any,
\* and no step lowers a cursor of the state file
CursorNeverDecreases ==
    [][/\ \A t \in Threads : saved'[t] >= saved[t]
       /\ (pc = "idle" /\ pc' = "idle") =>
             \A t \in Threads : state'[t] >= state[t]
       /\ (pc = "scan" /\ pc' = "idle") =>
             state'[thread_id] >= since]_vars
====
